---- MODULE Spec2Model ----
(***************************************************************************)
(* A model of synom's parser-combinator core (synom/src/lib.rs): the       *)
(* ParseState cursor, the IResult type and the combinator macros.          *)
(*                                                                         *)
(* A &str is a sequence of code points; a cursor's index is a BYTE offset, *)
(* so the alphabet holds a code point that is two bytes long in UTF-8.     *)
(* A parser passed to a combinator (a `fn(ParseState) -> IResult`, or an   *)
(* inline sub-macro) is a table from byte offset to result, filled in when *)
(* the parser is first invoked at an offset and fixed from then on.        *)
(***************************************************************************)
EXTENDS Integers, Sequences, FiniteSets, TLC

VARIABLES
    src,             \* the input buffer (&'a str) of the parse
    input,           \* the current cursor: `self`, or a loop's `input`
    orig,            \* the cursor the operation was invoked on (`$i`)
    res,             \* the Vec a repetition accumulates
    ret,             \* what the operation returned, NoRet while it runs
    pc,              \* where the operation is
    fns,             \* the parsers handed to the operation, as tables
    calls,           \* every parser invocation so far: <<who, cursor, result>>
    form,            \* many0: "macro" (many0! inline arm) or "fn" (synom::many0)
    arg,             \* the argument of the last ParseState::advance
    i2,              \* separated_nonempty_list!: the cursor after the separator
    rest,            \* alt!: the alternatives not tried yet, $($rest)*
    overflowChecks,  \* build profile: does `+` panic on overflow (debug) or wrap
    comb,            \* the combinator expression under evaluation
    self,            \* IResult::expect: the result it is called on
    name,            \* IResult::expect: its argument, the parser's name
    ONCE,            \* lazy_static: the state of `static ONCE: std::sync::Once`
    VALUE            \* lazy_static: `static mut VALUE: *mut T`, 0 the null pointer

vars == <<src, input, orig, res, ret, pc, fns, calls, form, arg, i2,
          rest, overflowChecks, ONCE, VALUE, comb, self, name>>

----------------------------------------------------------------------------
(* Bounds                                                                  *)

\* Longest input buffer, in code points.
MaxLen == 3

\* Width of usize in bits (scaled down from 64).
WordBits == 3

WordMod == 2 ^ WordBits

Words == 0 .. (WordMod - 1)

----------------------------------------------------------------------------
(* &str                                                                    *)

\* "w" stands for a code point that takes two bytes in UTF-8.
Chars == {"a", "b", "w"}

Utf8Len(c) == IF c = "w" THEN 2 ELSE 1

RECURSIVE ByteLen(_)
ByteLen(s) == IF s = <<>> THEN 0 ELSE Utf8Len(Head(s)) + ByteLen(Tail(s))

StrsUpTo(n) == UNION {[1 .. k -> Chars] : k \in 0 .. n}

Inputs == StrsUpTo(MaxLen)

\* The byte offsets of s that fall on a code point boundary.
Boundaries(s) == {ByteLen(SubSeq(s, 1, k)) : k \in 0 .. Len(s)}

\* The number of code points before byte offset i; slicing off a boundary
\* panics in Rust, and is undefined here.
CharPos(s, i) == CHOOSE k \in 0 .. Len(s) : ByteLen(SubSeq(s, 1, k)) = i

\* &s[i..]
SliceFrom(s, i) == SubSeq(s, CharPos(s, i) + 1, Len(s))

\* &s[..i]
SliceTo(s, i) == SubSeq(s, 1, CharPos(s, i))

\* str::starts_with
StrStartsWith(s, p) == Len(p) <= Len(s) /\ SubSeq(s, 1, Len(p)) = p

----------------------------------------------------------------------------
(* ParseState                                                              *)

ParseState(s, i) == [input |-> s, index |-> i]

New(s) == ParseState(s, 0)

Rest(p) == SliceFrom(p.input, p.index)

IsEmpty(p) == Rest(p) = <<>>

PLen(p) == ByteLen(Rest(p))

StartsWith(p, t) == StrStartsWith(Rest(p), t)

Until(p, i) == SliceTo(Rest(p), i)

\* What a call that panics yields: the process aborts, nothing is returned.
Panic == [tag |-> "Panic"]

\* A faulty advance: the new index is i, not i + self.index.
AdvanceInForgetsIndex(p, i, checked) ==
    IF i <= ByteLen(p.input) THEN ParseState(p.input, i) ELSE Panic

\* advance with the build's overflow behaviour passed in.
AdvanceIn(p, i, checked) ==
    LET sum   == i + p.index
        index == sum % WordMod
    IN  IF checked /\ sum >= WordMod THEN Panic
        ELSE IF index <= ByteLen(p.input) THEN ParseState(p.input, index)
        ELSE Panic

Advance(p, i) == AdvanceIn(p, i, overflowChecks)

Finish(p) == ParseState(p.input, ByteLen(p.input))

Idx(p) == p.index

----------------------------------------------------------------------------
(* IResult                                                                 *)

Done(i, o) == [tag |-> "Done", i |-> i, o |-> o]

Error == [tag |-> "Error"]

NoRet == [tag |-> "None"]

IsDone(r) == r.tag = "Done"

----------------------------------------------------------------------------
(* A cursor driven through new / advance / finish                          *)

CursorInit ==
    /\ src \in Inputs
    /\ input = New(src)
    /\ orig = New(src)
    /\ res = <<>>
    /\ ret = NoRet
    /\ pc = "cursor"
    /\ fns = <<>>
    /\ calls = <<>>
    /\ form = "cursor"
    /\ arg = 0
    /\ i2 = <<>>
    /\ rest = <<>>
    /\ overflowChecks \in BOOLEAN
    /\ ONCE = "INCOMPLETE"
    /\ VALUE = 0
    /\ comb = <<>>
    /\ self = NoRet
    /\ name = <<>>

\* let next = input.advance(n): a panic ends the process.
CursorAdvance ==
    /\ pc \in {"cursor", "advanced", "finished"}
    /\ \E n \in Words :
        LET r == Advance(input, n)
        IN  /\ arg' = n
            /\ orig' = input
            /\ ret' = r
            /\ IF r = Panic
               THEN pc' = "aborted" /\ input' = input
               ELSE pc' = "advanced" /\ input' = r
    /\ UNCHANGED <<src, res, fns, calls, form, i2, rest, overflowChecks, ONCE, VALUE, comb, self, name>>

\* let next = input.finish()
CursorFinish ==
    /\ pc \in {"cursor", "advanced", "finished"}
    /\ orig' = input
    /\ ret' = Finish(input)
    /\ input' = Finish(input)
    /\ pc' = "finished"
    /\ UNCHANGED <<src, res, fns, calls, form, arg, i2, rest, overflowChecks, ONCE, VALUE, comb, self, name>>

CursorNext == CursorAdvance \/ CursorFinish

SpecCursor == CursorInit /\ [][CursorNext]_vars

----------------------------------------------------------------------------
(* Parsers handed to a combinator                                          *)

\* The values a parser produces.
Vals == {"x", "y"}

\* The buffers of the runs whose parsers are tables: a table is keyed by byte
\* offset and never reads the buffer, so one code point is enough.
TableInputs == {s \in Inputs : \A k \in 1 .. Len(s) : s[k] = "a"}

\* Every cursor over buffer s that can be sliced.
Cursors(s) == {ParseState(s, j) : j \in Boundaries(s)}

\* What a parser may return for a cursor over s: Error, or Done with any
\* cursor over s (the signature does not tie the returned cursor to the one
\* given) and any value.
Outcomes(s) == {Error} \cup {Done(c, v) : c \in Cursors(s), v \in Vals}

\* Parser `who` is invoked on cursor p and returns r: the same result as
\* before if it was invoked on p before.
Invoke(who, p, r) ==
    /\ r \in Outcomes(p.input)
    /\ p.index \in DOMAIN fns[who] => r = fns[who][p.index]
    /\ fns' = [fns EXCEPT ![who] = (p.index :> r) @@ @]
    /\ calls' = Append(calls, <<who, p, r>>)

\* The trips a loop is followed for; the longest run of a parser that
\* consumes on every trip takes MaxLen of them.
MaxIter == MaxLen + 1

----------------------------------------------------------------------------
(* many0                                                                   *)

\* The state a trip leaves, f having been called in it.
LoopState(i, rs, rt) == [input |-> i, res |-> rs, ret |-> rt, called |-> TRUE]

\* `if input.is_empty() { return IResult::Done(input, res); }`: the trip
\* returns before f is called.
AtEnd(i, rs) == [input |-> i, res |-> rs, ret |-> Done(i, rs), called |-> FALSE]

\* A faulty loop body: no test for the end of the input.
Many0FnBodyNoEmptyCheck(inp, rs, r) ==
    IF r = Error THEN LoopState(inp, rs, Done(inp, rs))
    ELSE IF PLen(r.i) = PLen(inp) THEN LoopState(inp, rs, Error)
    ELSE LoopState(r.i, Append(rs, r.o), NoRet)

\* A faulty loop body: no check that the trip consumed.
Many0FnBodyNoGuard(inp, rs, r) ==
    IF IsEmpty(inp) THEN AtEnd(inp, rs)
    ELSE IF r = Error THEN LoopState(inp, rs, Done(inp, rs))
    ELSE LoopState(r.i, Append(rs, r.o), NoRet)

\* A faulty loop body: the inner parser's Error becomes many0's Error.
Many0FnBodyErrorFails(inp, rs, r) ==
    IF IsEmpty(inp) THEN AtEnd(inp, rs)
    ELSE IF r = Error THEN LoopState(inp, rs, Error)
    ELSE IF PLen(r.i) = PLen(inp) THEN LoopState(inp, rs, Error)
    ELSE LoopState(r.i, Append(rs, r.o), NoRet)

\* One trip of the loop of synom::many0, r being what f(input) returns when
\* the trip gets to call it.
Many0FnBody(inp, rs, r) ==
    IF IsEmpty(inp) THEN AtEnd(inp, rs)
    ELSE IF r = Error THEN LoopState(inp, rs, Done(inp, rs))
    ELSE IF PLen(r.i) = PLen(inp) THEN LoopState(inp, rs, Error)
    ELSE LoopState(r.i, Append(rs, r.o), NoRet)

\* A faulty loop body: a trip that does not consume ends the loop with the
\* values collected.
Many0MacroBodyStallIsDone(inp, rs, r) ==
    IF IsEmpty(inp) THEN AtEnd(inp, rs)
    ELSE IF r = Error THEN LoopState(inp, rs, Done(inp, rs))
    ELSE IF PLen(r.i) = PLen(inp) THEN LoopState(inp, rs, Done(inp, rs))
    ELSE LoopState(r.i, Append(rs, r.o), NoRet)

\* One trip of the loop of the inline arm of many0!, r being what
\* $submac!(input, ...) returns when the trip gets to evaluate it.
Many0MacroBody(inp, rs, r) ==
    IF IsEmpty(inp) THEN AtEnd(inp, rs)
    ELSE IF r = Error THEN LoopState(inp, rs, Done(inp, rs))
    ELSE IF PLen(r.i) = PLen(inp) THEN LoopState(inp, rs, Error)
    ELSE LoopState(r.i, Append(rs, r.o), NoRet)

Many0Init ==
    /\ src \in TableInputs
    /\ orig \in Cursors(src)
    /\ input = orig
    /\ res = <<>>
    /\ ret = NoRet
    /\ pc = "loop"
    /\ fns = [f |-> <<>>]
    /\ calls = <<>>
    /\ form \in {"fn", "macro"}
    /\ arg = 0
    /\ i2 = <<>>
    /\ rest = <<>>
    /\ overflowChecks = TRUE
    /\ ONCE = "INCOMPLETE"
    /\ VALUE = 0
    /\ comb = <<>>
    /\ self = NoRet
    /\ name = <<>>

Many0Apply(st) ==
    /\ input' = st.input
    /\ res' = st.res
    /\ ret' = st.ret
    /\ pc' = IF st.ret = NoRet THEN "loop" ELSE "done"

Many0FnTrip ==
    /\ form = "fn"
    /\ pc = "loop"
    /\ Len(res) < MaxIter
    /\ \E r \in Outcomes(src) :
        LET st == Many0FnBody(input, res, r)
        IN  /\ IF st.called THEN Invoke("f", input, r) ELSE UNCHANGED <<fns, calls>>
            /\ Many0Apply(st)
    /\ UNCHANGED <<src, orig, form, arg, i2, rest, overflowChecks, ONCE, VALUE, comb, self, name>>

Many0MacroTrip ==
    /\ form = "macro"
    /\ pc = "loop"
    /\ Len(res) < MaxIter
    /\ \E r \in Outcomes(src) :
        LET st == Many0MacroBody(input, res, r)
        IN  /\ IF st.called THEN Invoke("f", input, r) ELSE UNCHANGED <<fns, calls>>
            /\ Many0Apply(st)
    /\ UNCHANGED <<src, orig, form, arg, i2, rest, overflowChecks, ONCE, VALUE, comb, self, name>>

Many0Next == Many0FnTrip \/ Many0MacroTrip

SpecMany0 == Many0Init /\ [][Many0Next]_vars

----------------------------------------------------------------------------
(* separated_nonempty_list                                                 *)

\* The items the list loop is followed for: a separator and an item that both
\* consume on every trip fit (MaxLen + 1) \div 2 items into the buffer.
SepMaxIter == (MaxLen + 1) \div 2 + 1

SepState(i, rs, rt, next, after) ==
    [input |-> i, res |-> rs, ret |-> rt, pc |-> next, i2 |-> after]

\* A faulty first step: a first item that does not consume is accepted.
SepFirstBodyNoGuard(inp, rs, r) ==
    IF r = Error THEN SepState(inp, rs, Error, "done", <<>>)
    ELSE SepState(r.i, Append(rs, r.o), NoRet, "sep", <<>>)

\* "get the first element": r is what $submac!(input, ...) returns.
SepFirstBody(inp, rs, r) ==
    IF r = Error THEN SepState(inp, rs, Error, "done", <<>>)
    ELSE IF PLen(r.i) = PLen(inp) THEN SepState(inp, rs, Error, "done", <<>>)
    ELSE SepState(r.i, Append(rs, r.o), NoRet, "sep", <<>>)

\* The head of the while let: r is what $sep!(input, ...) returns. Leaving
\* the loop evaluates IResult::Done(input, res).
SepSepBody(inp, rs, r) ==
    IF ~IsDone(r) THEN SepState(inp, rs, Done(inp, rs), "done", <<>>)
    ELSE IF PLen(r.i) = PLen(inp) THEN SepState(inp, rs, Done(inp, rs), "done", <<>>)
    ELSE SepState(inp, rs, NoRet, "item", r.i)

\* A faulty loop body: leaving the loop after a separator returns the cursor
\* after the separator.
SepItemBodyKeepsSeparator(inp, rs, after, r) ==
    IF IsDone(r)
    THEN IF PLen(r.i) = PLen(after)
         THEN SepState(after, rs, Done(after, rs), "done", <<>>)
         ELSE SepState(r.i, Append(rs, r.o), NoRet, "sep", <<>>)
    ELSE SepState(after, rs, Done(after, rs), "done", <<>>)

\* The rest of the while body: r is what $submac!(i2, ...) returns.
SepItemBody(inp, rs, after, r) ==
    IF IsDone(r)
    THEN IF PLen(r.i) = PLen(after)
         THEN SepState(inp, rs, Done(inp, rs), "done", <<>>)
         ELSE SepState(r.i, Append(rs, r.o), NoRet, "sep", <<>>)
    ELSE SepState(inp, rs, Done(inp, rs), "done", <<>>)

SepInit ==
    /\ src \in TableInputs
    /\ orig \in Cursors(src)
    /\ input = orig
    /\ res = <<>>
    /\ ret = NoRet
    /\ pc = "first"
    /\ fns = [sep |-> <<>>, item |-> <<>>]
    /\ calls = <<>>
    /\ form = "separated_nonempty_list"
    /\ arg = 0
    /\ i2 = <<>>
    /\ rest = <<>>
    /\ overflowChecks = TRUE
    /\ ONCE = "INCOMPLETE"
    /\ VALUE = 0
    /\ comb = <<>>
    /\ self = NoRet
    /\ name = <<>>

SepApply(st) ==
    /\ input' = st.input
    /\ res' = st.res
    /\ ret' = st.ret
    /\ pc' = st.pc
    /\ i2' = st.i2

SepFirstItem ==
    /\ pc = "first"
    /\ \E r \in Outcomes(src) :
        /\ Invoke("item", input, r)
        /\ SepApply(SepFirstBody(input, res, r))
    /\ UNCHANGED <<src, orig, form, arg, rest, overflowChecks, ONCE, VALUE, comb, self, name>>

SepSeparator ==
    /\ pc = "sep"
    /\ Len(res) < SepMaxIter
    /\ \E r \in Outcomes(src) :
        /\ Invoke("sep", input, r)
        /\ SepApply(SepSepBody(input, res, r))
    /\ UNCHANGED <<src, orig, form, arg, rest, overflowChecks, ONCE, VALUE, comb, self, name>>

SepItem ==
    /\ pc = "item"
    /\ \E r \in Outcomes(src) :
        /\ Invoke("item", i2, r)
        /\ SepApply(SepItemBody(input, res, i2, r))
    /\ UNCHANGED <<src, orig, form, arg, rest, overflowChecks, ONCE, VALUE, comb, self, name>>

SepNext == SepFirstItem \/ SepSeparator \/ SepItem

SpecSepList == SepInit /\ [][SepNext]_vars

----------------------------------------------------------------------------
(* alt                                                                     *)

\* Most alternatives of one alt!.
MaxAlts == 3

\* An alternative: parser number fn, with `=> { gen }` after it or not.
Alternative(k, g) == [fn |-> k, gen |-> g]

\* alt!(1 | 2 | ...) of n alternatives, each with or without a mapping.
AltExprs ==
    UNION {{[k \in 1 .. n |-> Alternative(k, g[k])] : g \in [1 .. n -> BOOLEAN]} :
           n \in 1 .. MaxAlts}

\* $gen(o) of alternative k: a function of o that is not the identity.
Gen(k, o) == <<"gen", k, o>>

\* What a successful alternative contributes: Done(i, $gen(o)), or the
\* result as it is when the alternative has no mapping.
AltDone(alt, r) == IF alt.gen THEN Done(r.i, Gen(alt.fn, r.o)) ELSE r

AltState(rt, more) == [ret |-> rt, rest |-> more]

\* A faulty arm: a success does not stop the later alternatives.
AltArmTriesAll(alt, more, r) ==
    IF more # <<>> THEN AltState(NoRet, more)
    ELSE IF IsDone(r) THEN AltState(AltDone(alt, r), <<>>)
    ELSE AltState(Error, <<>>)

\* A faulty arm: an Error is returned without trying the later alternatives.
AltArmStopsAtFailure(alt, more, r) ==
    IF IsDone(r) THEN AltState(AltDone(alt, r), <<>>)
    ELSE AltState(Error, <<>>)

\* One arm of alt!: r is what $subrule!($i, ...) returns, more the
\* alternatives after it. With alternatives left, an Error goes on to
\* alt!($i, $($rest)*); the last alternative's result is alt!'s.
AltArm(alt, more, r) ==
    IF IsDone(r) THEN AltState(AltDone(alt, r), <<>>)
    ELSE IF more # <<>> THEN AltState(NoRet, more)
    ELSE AltState(Error, <<>>)

AltInit ==
    /\ src \in TableInputs
    /\ orig \in Cursors(src)
    /\ input = orig
    /\ res = <<>>
    /\ ret = NoRet
    /\ pc = "alt"
    /\ comb \in AltExprs
    /\ rest = comb
    /\ fns = [k \in 1 .. Len(comb) |-> <<>>]
    /\ calls = <<>>
    /\ form = "alt"
    /\ arg = 0
    /\ i2 = <<>>
    /\ overflowChecks = TRUE
    /\ ONCE = "INCOMPLETE"
    /\ VALUE = 0
    /\ self = NoRet
    /\ name = <<>>

\* alt!($i, $subrule | $($rest)*): every arm evaluates $subrule!($i, ...).
AltTry ==
    /\ pc = "alt"
    /\ \E r \in Outcomes(src) :
        /\ Invoke(Head(rest).fn, orig, r)
        /\ LET st == AltArm(Head(rest), Tail(rest), r)
           IN  /\ ret' = st.ret
               /\ rest' = st.rest
               /\ pc' = IF st.ret = NoRet THEN "alt" ELSE "done"
    /\ UNCHANGED <<src, input, orig, res, form, arg, i2, overflowChecks, ONCE, VALUE, comb, self, name>>

AltNext == AltTry

SpecAlt == AltInit /\ [][AltNext]_vars

----------------------------------------------------------------------------
(* The primitive combinators                                               *)

\* A faulty tag!: the cursor returned is the one given, the literal is not
\* consumed.
TagKeepsCursor(i, tag) ==
    IF StartsWith(i, tag)
    THEN Done(i, Until(i, ByteLen(tag)))
    ELSE Error

\* tag!($i, $tag)
Tag(i, tag) ==
    IF StartsWith(i, tag)
    THEN Done(Advance(i, ByteLen(tag)), Until(i, ByteLen(tag)))
    ELSE Error

\* The for loop of take_while1! from code point k of r on: the byte offset of
\* the first code point that fails the predicate, r's length if none does.
RECURSIVE TakeWhileScan(_, _, _)
TakeWhileScan(r, pred, k) ==
    IF k > Len(r) THEN ByteLen(r)
    ELSE IF r[k] \notin pred THEN ByteLen(SubSeq(r, 1, k - 1))
    ELSE TakeWhileScan(r, pred, k + 1)

\* A faulty take_while1!: an empty run is a success.
TakeWhile1AcceptsNone(i, pred) ==
    LET offset == TakeWhileScan(Rest(i), pred, 1)
    IN  IF offset < PLen(i) THEN Done(Advance(i, offset), Until(i, offset))
        ELSE Done(Finish(i), Rest(i))

\* take_while1!($input, pred), the predicate being a set of code points.
TakeWhile1(i, pred) ==
    LET offset == TakeWhileScan(Rest(i), pred, 1)
    IN  IF offset = 0 THEN Error
        ELSE IF offset < PLen(i) THEN Done(Advance(i, offset), Until(i, offset))
        ELSE Done(Finish(i), Rest(i))

\* The for loop of take_until! from code point k of r on, window being the
\* sliding window before r[k] is pushed: [parsed, offset] as the loop leaves
\* them.
RECURSIVE TakeUntilScan(_, _, _, _)
TakeUntilScan(r, substr, k, window) ==
    IF k > Len(r) THEN [parsed |-> FALSE, offset |-> ByteLen(r)]
    ELSE LET o      == ByteLen(SubSeq(r, 1, k - 1))
             pushed == Append(window, r[k])
             win    == IF Len(pushed) > Len(substr) THEN Tail(pushed) ELSE pushed
         IN  IF win = substr
             THEN LET popped == IF win = <<>> THEN win
                                ELSE SubSeq(win, 1, Len(win) - 1)
                  IN  [parsed |-> TRUE, offset |-> o - ByteLen(popped)]
             ELSE TakeUntilScan(r, substr, k + 1, win)

\* take_until!($input, $substr)
TakeUntil(i, substr) ==
    IF ByteLen(substr) > PLen(i) THEN Error
    ELSE LET scan == TakeUntilScan(Rest(i), substr, 1, <<>>)
         IN  IF scan.parsed
             THEN Done(Advance(i, scan.offset), Until(i, scan.offset))
             ELSE Error

\* value!($i, $res)
Value(i, v) == Done(i, v)

----------------------------------------------------------------------------
(* Combinator expressions and their evaluation                             *)

\* $g(o) of map!, and the final expression of do_parse! over its bindings:
\* functions of their arguments.
MapFn(o) == <<"g", o>>

FinalExpr(bound) == <<"expr", bound>>

\* Option: Some(o) and None.
Some(o) == [some |-> TRUE, v |-> o]

None == [some |-> FALSE]

\* A faulty not!: the two arms of the match are swapped.
NotBodySwapped(i, r) == IF IsDone(r) THEN Done(i, <<>>) ELSE Error

\* The match of not!($i, ...): r is what $submac!($i, ...) returns, the
\* value of a success is "".
NotBody(i, r) == IF IsDone(r) THEN Error ELSE Done(i, <<>>)

\* A faulty peek!: the cursor returned is the inner parser's.
PeekBodyAdvances(i, r) == IF IsDone(r) THEN Done(r.i, r.o) ELSE Error

\* The match of peek!($i, ...): r is what $submac!($i, ...) returns.
PeekBody(i, r) == IF IsDone(r) THEN Done(i, r.o) ELSE Error

\* A faulty cond!: the inner parser's failure is a success with None.
CondBodyErrorIsNone(i, r) == IF IsDone(r) THEN Done(r.i, Some(r.o)) ELSE Done(i, None)

\* The match of cond!($i, $cond, ...) when $cond holds: r is what
\* $submac!($i, ...) returns.
CondBody(i, r) == IF IsDone(r) THEN Done(r.i, Some(r.o)) ELSE Error

\* cond!($i, $cond, ...) when $cond does not hold.
CondElse(i) == Done(i, None)

TupleState(i, parsed, rt, more) ==
    [input |-> i, res |-> parsed, ret |-> rt, rest |-> more]

\* A faulty arm: the cursor is not threaded, the next parser runs on $i.
TupleArmKeepsCursor(i, more, parsed, r) ==
    IF r = Error THEN TupleState(i, parsed, Error, <<>>)
    ELSE IF more # <<>> THEN TupleState(i, Append(parsed, r.o), NoRet, more)
    ELSE IF parsed = <<>> THEN TupleState(r.i, parsed, r, <<>>)
    ELSE TupleState(r.i, parsed, Done(r.i, Append(parsed, r.o)), <<>>)

\* One arm of tuple_parser!($i, (parsed...), $submac!(...), rest...): r is
\* what $submac!($i, ...) returns, more the parsers after it. With parsers
\* left, a success goes on to tuple_parser!(i, (parsed..., o), rest...); the
\* last parser's success ends it, alone (its result as it is) or after
\* others (Done(i, (parsed..., o))).
TupleArm(i, more, parsed, r) ==
    IF r = Error THEN TupleState(i, parsed, Error, <<>>)
    ELSE IF more # <<>> THEN TupleState(r.i, Append(parsed, r.o), NoRet, more)
    ELSE IF parsed = <<>> THEN TupleState(r.i, parsed, r, <<>>)
    ELSE TupleState(r.i, parsed, Done(r.i, Append(parsed, r.o)), <<>>)

\* A faulty delimited!: the value kept is the opener's.
DelimitedBodyKeepsOpener(r) == IF r = Error THEN Error ELSE Done(r.i, r.o[1])

\* The match of delimited!: r is what tuple_parser! of the three returns.
DelimitedBody(r) == IF r = Error THEN Error ELSE Done(r.i, r.o[2])

\* The last arm of do_parse!, ($i, (expr)): the final expression over the
\* bound values, with the cursor it is given.
DoParseFinal(i, bound) == Done(i, FinalExpr(bound))

\* A faulty arm: a step's failure is skipped, the next step runs on $i.
DoParseArmSkipsFailure(i, step, more, bound, r) ==
    IF r = Error
    THEN IF more # <<>> THEN TupleState(i, bound, NoRet, more)
         ELSE TupleState(i, bound, DoParseFinal(i, bound), <<>>)
    ELSE LET b == IF step.bind THEN Append(bound, r.o) ELSE bound
         IN  IF more # <<>> THEN TupleState(r.i, b, NoRet, more)
             ELSE TupleState(r.i, b, DoParseFinal(r.i, b), <<>>)

\* One step arm of do_parse!($i, step >> rest...): r is what
\* $submac!($i, ...) returns, more the steps after it. An Error is the
\* result; a success binds the value (`$field: ...`) or drops it and goes on
\* to do_parse!(i, rest...), which is the final expression when no step is
\* left.
DoParseArm(i, step, more, bound, r) ==
    IF r = Error THEN TupleState(i, bound, Error, <<>>)
    ELSE LET b == IF step.bind THEN Append(bound, r.o) ELSE bound
         IN  IF more # <<>> THEN TupleState(r.i, b, NoRet, more)
             ELSE TupleState(r.i, b, DoParseFinal(r.i, b), <<>>)

\* `match o { p1 => ..., p2 => ..., _ => Error }`: the arms from the first
\* whose pattern matches o on, none if no pattern matches.
RECURSIVE SwitchSelect(_, _)
SwitchSelect(arms, o) ==
    IF arms = <<>> THEN <<>>
    ELSE IF Head(arms).pat = o THEN arms
    ELSE SwitchSelect(Tail(arms), o)

SwitchState(i, rt, more) == [input |-> i, ret |-> rt, rest |-> more]

\* A faulty switch!: the branch runs on $i, the cursor of the discriminant.
SwitchBodyKeepsCursor(i, r, arms) ==
    IF r = Error THEN SwitchState(i, Error, <<>>)
    ELSE LET sel == SwitchSelect(arms, r.o)
         IN  IF sel = <<>> THEN SwitchState(i, Error, <<>>)
             ELSE SwitchState(i, NoRet, <<Head(sel)>>)

\* The outer match of switch!($i, discriminant, arms): r is what
\* $submac!($i, ...) returns; the branch selected, if any, is left to run on
\* the cursor r holds.
SwitchBody(i, r, arms) ==
    IF r = Error THEN SwitchState(i, Error, <<>>)
    ELSE LET sel == SwitchSelect(arms, r.o)
         IN  IF sel = <<>> THEN SwitchState(r.i, Error, <<>>)
             ELSE SwitchState(r.i, NoRet, <<Head(sel)>>)

RECURSIVE Eval(_, _)
RECURSIVE Many0Loop(_, _, _)
RECURSIVE SepLoop(_, _, _, _)
RECURSIVE AltEval(_, _)
RECURSIVE TupleParser(_, _, _)
RECURSIVE DoParse(_, _, _)
RECURSIVE SwitchArms(_, _, _)

\* The loop of many0!($i, $submac!(...)).
Many0Loop(c, inp, rs) ==
    LET st == Many0MacroBody(inp, rs, IF IsEmpty(inp) THEN Error ELSE Eval(c, inp))
    IN  IF st.ret = NoRet THEN Many0Loop(c, st.input, st.res) ELSE st.ret

\* The while let loop of separated_nonempty_list!.
SepLoop(sep, item, inp, rs) ==
    LET s1 == SepSepBody(inp, rs, Eval(sep, inp))
    IN  IF s1.pc = "done" THEN s1.ret
        ELSE LET s2 == SepItemBody(inp, rs, s1.i2, Eval(item, s1.i2))
             IN  IF s2.pc = "done" THEN s2.ret
                 ELSE SepLoop(sep, item, s2.input, s2.res)

SeparatedNonemptyList(sep, item, i) ==
    LET st == SepFirstBody(i, <<>>, Eval(item, i))
    IN  IF st.pc = "done" THEN st.ret ELSE SepLoop(sep, item, st.input, st.res)

\* alt!($i, alternatives)
AltEval(alts, i) ==
    LET st == AltArm(Head(alts), Tail(alts), Eval(Head(alts).c, i))
    IN  IF st.ret = NoRet THEN AltEval(st.rest, i) ELSE st.ret

\* tuple_parser!($i, (parsed...), combinators...)
TupleParser(cs, i, parsed) ==
    IF cs = <<>> THEN Done(i, parsed)
    ELSE LET st == TupleArm(i, Tail(cs), parsed, Eval(Head(cs), i))
         IN  IF st.ret = NoRet THEN TupleParser(st.rest, st.input, st.res)
             ELSE st.ret

\* do_parse!($i, steps >> (expr)): a step binds its value or drops it.
DoParse(steps, i, bound) ==
    IF steps = <<>> THEN DoParseFinal(i, bound)
    ELSE LET st == DoParseArm(i, Head(steps), Tail(steps), bound,
                              Eval(Head(steps).c, i))
         IN  IF st.ret = NoRet THEN DoParse(st.rest, st.input, st.res)
             ELSE st.ret

\* The inner match of switch!: the first arm whose pattern matches o runs on
\* i, the cursor after the discriminant; `_ => Error` is the last arm.
SwitchArms(arms, i, o) ==
    LET sel == SwitchSelect(arms, o)
    IN  IF sel = <<>> THEN Error ELSE Eval(Head(sel).c, i)

Eval(c, i) ==
    CASE c.op = "tag" -> Tag(i, c.lit)
      [] c.op = "take_while1" -> TakeWhile1(i, c.pred)
      [] c.op = "take_until" -> TakeUntil(i, c.lit)
      [] c.op = "value" -> Value(i, c.lit)
      [] c.op = "map" ->
            LET r == Eval(c.c, i)
            IN  IF r = Error THEN Error ELSE Done(r.i, MapFn(r.o))
      [] c.op = "not" -> NotBody(i, Eval(c.c, i))
      [] c.op = "peek" -> PeekBody(i, Eval(c.c, i))
      [] c.op = "cond" ->
            IF c.b THEN CondBody(i, Eval(c.c, i)) ELSE CondElse(i)
      [] c.op = "cond_reduce" -> IF c.b THEN Eval(c.c, i) ELSE Error
      [] c.op = "many0" -> Many0Loop(c.c, i, <<>>)
      [] c.op = "tuple" -> TupleParser(c.cs, i, <<>>)
      [] c.op = "preceded" ->
            LET r == TupleParser(c.cs, i, <<>>)
            IN  IF IsDone(r) THEN Done(r.i, r.o[2]) ELSE Error
      [] c.op = "terminated" ->
            LET r == TupleParser(c.cs, i, <<>>)
            IN  IF IsDone(r) THEN Done(r.i, r.o[1]) ELSE Error
      [] c.op = "delimited" -> DelimitedBody(TupleParser(c.cs, i, <<>>))
      [] c.op = "separated_nonempty_list" ->
            SeparatedNonemptyList(c.cs[1], c.cs[2], i)
      [] c.op = "alt" -> AltEval(c.alts, i)
      [] c.op = "do_parse" -> DoParse(c.steps, i, <<>>)
      [] c.op = "switch" ->
            LET r == Eval(c.c, i)
            IN  IF r = Error THEN Error ELSE SwitchArms(c.arms, r.i, r.o)

----------------------------------------------------------------------------
(* Combinators built from the primitives, applied to a cursor              *)

\* The literals of tag! and take_until!, the patterns of switch!.
Lits == {<<>>, <<"a">>, <<"w", "a">>}

\* The predicates of take_while1!.
Preds == {{"a"}, {"a", "w"}}

Leaves ==
    {[op |-> "tag", lit |-> l] : l \in Lits}
        \cup {[op |-> "take_until", lit |-> l] : l \in Lits}
        \cup {[op |-> "take_while1", pred |-> q] : q \in Preds}
        \cup {[op |-> "value", lit |-> <<"b">>]}

\* The combinators of one operand, the operand from S.
UnaryCompounds(S) ==
    {[op |-> o, c |-> x] : o \in {"map", "not", "peek", "many0"}, x \in S}
        \cup {[op |-> o, b |-> b, c |-> x] :
                o \in {"cond", "cond_reduce"}, b \in BOOLEAN, x \in S}

\* The combinators of several operands, the operands from S: one of each
\* form per choice of operands (two alternatives, two steps, one switch arm
\* with a primitive as the discriminant).
NaryCompounds(S) ==
    {[op |-> o, cs |-> <<x, y>>] :
        o \in {"tuple", "preceded", "terminated", "separated_nonempty_list"},
        x \in S, y \in S}
        \cup {[op |-> "delimited", cs |-> <<x, y, z>>] : x \in S, y \in S, z \in S}
        \cup {[op |-> "alt",
               alts |-> <<[fn |-> 1, gen |-> g, c |-> x], [fn |-> 2, gen |-> h, c |-> y]>>] :
                g \in BOOLEAN, h \in BOOLEAN, x \in S, y \in S}
        \cup {[op |-> "do_parse",
               steps |-> <<[bind |-> b, c |-> x], [bind |-> ~b, c |-> y]>>] :
                b \in BOOLEAN, x \in S, y \in S}
        \cup {[op |-> "switch", c |-> x, arms |-> <<[pat |-> l, c |-> y]>>] :
                l \in Lits, x \in S \cap Leaves, y \in S}

Compounds(S) == UnaryCompounds(S) \cup NaryCompounds(S)

\* The primitives the doubly nested combinators are built from.
InnerLeaves ==
    {[op |-> "tag", lit |-> <<"a">>],
     [op |-> "take_until", lit |-> <<"w", "a">>],
     [op |-> "value", lit |-> <<"b">>]}

\* The primitives, every combinator over primitives, and every one-operand
\* combinator over a combinator over primitives.
Combs ==
    Leaves \cup Compounds(Leaves) \cup UnaryCompounds(Compounds(InnerLeaves))

CombInit ==
    /\ src \in Inputs
    /\ orig \in Cursors(src)
    /\ input = orig
    /\ res = <<>>
    /\ ret = NoRet
    /\ pc = "comb"
    /\ fns = <<>>
    /\ calls = <<>>
    /\ form = "comb"
    /\ arg = 0
    /\ i2 = <<>>
    /\ rest = <<>>
    /\ overflowChecks = TRUE
    /\ ONCE = "INCOMPLETE"
    /\ VALUE = 0
    /\ comb \in Combs
    /\ self = NoRet
    /\ name = <<>>

\* let ret = comb(input)
CombApply ==
    /\ pc = "comb"
    /\ ret' = Eval(comb, input)
    /\ pc' = "done"
    /\ UNCHANGED <<src, input, orig, res, fns, calls, form, arg, i2, rest,
                   overflowChecks, ONCE, VALUE, comb, self, name>>

CombNext == CombApply

SpecComb == CombInit /\ [][CombNext]_vars

----------------------------------------------------------------------------
(* The primitives alone, over every literal and predicate                  *)

\* Longest literal of tag! and take_until!, in code points.
MaxLit == 2

\* The predicates of take_while1!: every set of code points.
PrimExprs ==
    {[op |-> "tag", lit |-> l] : l \in StrsUpTo(MaxLit)}
        \cup {[op |-> "take_until", lit |-> l] : l \in StrsUpTo(MaxLit)}
        \cup {[op |-> "take_while1", pred |-> q] : q \in SUBSET Chars}

PrimInit ==
    /\ src \in Inputs
    /\ orig \in Cursors(src)
    /\ input = orig
    /\ res = <<>>
    /\ ret = NoRet
    /\ pc = "comb"
    /\ fns = <<>>
    /\ calls = <<>>
    /\ form = "prim"
    /\ arg = 0
    /\ i2 = <<>>
    /\ rest = <<>>
    /\ overflowChecks = TRUE
    /\ ONCE = "INCOMPLETE"
    /\ VALUE = 0
    /\ comb \in PrimExprs
    /\ self = NoRet
    /\ name = <<>>

SpecPrim == PrimInit /\ [][CombNext]_vars

----------------------------------------------------------------------------
(* not, peek and cond around a parser, inside a sequence                   *)

\* not!(c), peek!(c), and cond!(b, c) for both values of b.
LookExprs ==
    {[op |-> "not"], [op |-> "peek"]} \cup {[op |-> "cond", b |-> b] : b \in BOOLEAN}

LookInit ==
    /\ src \in TableInputs
    /\ orig \in Cursors(src)
    /\ input = orig
    /\ res = <<>>
    /\ ret = NoRet
    /\ pc = "look"
    /\ fns = [c |-> <<>>, next |-> <<>>]
    /\ calls = <<>>
    /\ form = "look"
    /\ arg = 0
    /\ i2 = <<>>
    /\ rest = <<>>
    /\ overflowChecks = TRUE
    /\ ONCE = "INCOMPLETE"
    /\ VALUE = 0
    /\ comb \in LookExprs
    /\ self = NoRet
    /\ name = <<>>

\* not!($i, c)
NotApply ==
    /\ pc = "look"
    /\ comb.op = "not"
    /\ \E r \in Outcomes(src) :
        /\ Invoke("c", input, r)
        /\ ret' = NotBody(input, r)
    /\ pc' = "done"
    /\ UNCHANGED <<src, input, orig, res, form, arg, i2, rest, overflowChecks, ONCE, VALUE,
                   comb, self, name>>

\* peek!($i, c)
PeekApply ==
    /\ pc = "look"
    /\ comb.op = "peek"
    /\ \E r \in Outcomes(src) :
        /\ Invoke("c", input, r)
        /\ ret' = PeekBody(input, r)
    /\ pc' = "done"
    /\ UNCHANGED <<src, input, orig, res, form, arg, i2, rest, overflowChecks, ONCE, VALUE,
                   comb, self, name>>

\* cond!($i, b, c)
CondApply ==
    /\ pc = "look"
    /\ comb.op = "cond"
    /\ IF comb.b
       THEN \E r \in Outcomes(src) :
            /\ Invoke("c", input, r)
            /\ ret' = CondBody(input, r)
       ELSE /\ ret' = CondElse(input)
            /\ UNCHANGED <<fns, calls>>
    /\ pc' = "done"
    /\ UNCHANGED <<src, input, orig, res, form, arg, i2, rest, overflowChecks, ONCE, VALUE,
                   comb, self, name>>

\* The next step of the enclosing sequence, as `expr` after
\* `i: peek!(call!(ident))` in do_parse!: it runs on the cursor the step
\* before it returned.
LookFollow ==
    /\ pc = "done"
    /\ IsDone(ret)
    /\ \E r \in Outcomes(src) : Invoke("next", ret.i, r)
    /\ pc' = "followed"
    /\ UNCHANGED <<src, input, orig, res, ret, form, arg, i2, rest,
                   overflowChecks, ONCE, VALUE, comb, self, name>>

LookNext == NotApply \/ PeekApply \/ CondApply \/ LookFollow

SpecLook == LookInit /\ [][LookNext]_vars

----------------------------------------------------------------------------
(* tuple and delimited                                                     *)

\* Most parsers of one tuple!.
MaxTuple == 3

\* tuple!(1, ..., n), and delimited!(1, 2, 3).
TupleExprs ==
    {[op |-> "tuple", n |-> n] : n \in 1 .. MaxTuple}
        \cup {[op |-> "delimited", n |-> 3]}

TupleInit ==
    /\ src \in TableInputs
    /\ orig \in Cursors(src)
    /\ input = orig
    /\ res = <<>>
    /\ ret = NoRet
    /\ pc = "tuple"
    /\ comb \in TupleExprs
    /\ rest = [k \in 1 .. comb.n |-> k]
    /\ fns = [k \in 1 .. comb.n |-> <<>>]
    /\ calls = <<>>
    /\ form = "tuple"
    /\ arg = 0
    /\ i2 = <<>>
    /\ overflowChecks = TRUE
    /\ ONCE = "INCOMPLETE"
    /\ VALUE = 0
    /\ self = NoRet
    /\ name = <<>>

\* tuple!($i, ...): one arm of tuple_parser!.
TupleStep ==
    /\ pc = "tuple"
    /\ comb.op = "tuple"
    /\ \E r \in Outcomes(src) :
        /\ Invoke(Head(rest), input, r)
        /\ LET st == TupleArm(input, Tail(rest), res, r)
           IN  /\ input' = st.input
               /\ res' = st.res
               /\ rest' = st.rest
               /\ ret' = st.ret
               /\ pc' = IF st.ret = NoRet THEN "tuple" ELSE "done"
    /\ UNCHANGED <<src, orig, form, arg, i2, overflowChecks, ONCE, VALUE, comb, self, name>>

\* delimited!($i, ...): one arm of its tuple_parser!, and its own match once
\* the tuple_parser! has a result.
DelimitedStep ==
    /\ pc = "tuple"
    /\ comb.op = "delimited"
    /\ \E r \in Outcomes(src) :
        /\ Invoke(Head(rest), input, r)
        /\ LET st == TupleArm(input, Tail(rest), res, r)
           IN  /\ input' = st.input
               /\ res' = st.res
               /\ rest' = st.rest
               /\ ret' = IF st.ret = NoRet THEN NoRet ELSE DelimitedBody(st.ret)
               /\ pc' = IF st.ret = NoRet THEN "tuple" ELSE "done"
    /\ UNCHANGED <<src, orig, form, arg, i2, overflowChecks, ONCE, VALUE, comb, self, name>>

TupleNext == TupleStep \/ DelimitedStep

SpecTuple == TupleInit /\ [][TupleNext]_vars

----------------------------------------------------------------------------
(* do_parse                                                                *)

\* Most steps of one do_parse!.
MaxSteps == 3

\* do_parse!(step 1 >> ... >> step n >> (expr)), each step binding its value
\* or not; n may be 0.
DoParseExprs ==
    UNION {{[k \in 1 .. n |-> [fn |-> k, bind |-> b[k]]] : b \in [1 .. n -> BOOLEAN]} :
           n \in 0 .. MaxSteps}

DoParseInit ==
    /\ src \in TableInputs
    /\ orig \in Cursors(src)
    /\ input = orig
    /\ res = <<>>
    /\ ret = NoRet
    /\ pc = "do_parse"
    /\ comb \in DoParseExprs
    /\ rest = comb
    /\ fns = [k \in 1 .. Len(comb) |-> <<>>]
    /\ calls = <<>>
    /\ form = "do_parse"
    /\ arg = 0
    /\ i2 = <<>>
    /\ overflowChecks = TRUE
    /\ ONCE = "INCOMPLETE"
    /\ VALUE = 0
    /\ self = NoRet
    /\ name = <<>>

\* do_parse!($i, step >> rest...): one step arm, and the final expression
\* with it when it was the last step.
DoParseStep ==
    /\ pc = "do_parse"
    /\ rest # <<>>
    /\ \E r \in Outcomes(src) :
        /\ Invoke(Head(rest).fn, input, r)
        /\ LET st == DoParseArm(input, Head(rest), Tail(rest), res, r)
           IN  /\ input' = st.input
               /\ res' = st.res
               /\ rest' = st.rest
               /\ ret' = st.ret
               /\ pc' = IF st.ret = NoRet THEN "do_parse" ELSE "done"
    /\ UNCHANGED <<src, orig, form, arg, i2, overflowChecks, ONCE, VALUE, comb, self, name>>

\* do_parse!($i, (expr)): no step at all.
DoParseOnlyExpr ==
    /\ pc = "do_parse"
    /\ comb = <<>>
    /\ ret' = DoParseFinal(input, res)
    /\ pc' = "done"
    /\ UNCHANGED <<src, input, orig, res, fns, calls, form, arg, i2, rest,
                   overflowChecks, ONCE, VALUE, comb, self, name>>

DoParseNext == DoParseStep \/ DoParseOnlyExpr

SpecDoParse == DoParseInit /\ [][DoParseNext]_vars

----------------------------------------------------------------------------
(* switch                                                                  *)

\* Most arms of one switch!.
MaxArms == 2

\* switch!(discriminant, p1 => branch 1 | ... | pn => branch n): every
\* choice of patterns, two arms with the same pattern included; n may be 0.
SwitchExprs ==
    UNION {{[k \in 1 .. n |-> [fn |-> k, pat |-> q[k]]] : q \in [1 .. n -> Vals]} :
           n \in 0 .. MaxArms}

\* Parser 0 is the discriminant, parser k the branch of arm k.
SwitchInit ==
    /\ src \in TableInputs
    /\ orig \in Cursors(src)
    /\ input = orig
    /\ res = <<>>
    /\ ret = NoRet
    /\ pc = "switch"
    /\ comb \in SwitchExprs
    /\ rest = <<>>
    /\ fns = [k \in 0 .. Len(comb) |-> <<>>]
    /\ calls = <<>>
    /\ form = "switch"
    /\ arg = 0
    /\ i2 = <<>>
    /\ overflowChecks = TRUE
    /\ ONCE = "INCOMPLETE"
    /\ VALUE = 0
    /\ self = NoRet
    /\ name = <<>>

\* match $submac!($i, ...) { Error => Error, Done(i, o) => match o { ... } }
SwitchDiscriminant ==
    /\ pc = "switch"
    /\ \E r \in Outcomes(src) :
        /\ Invoke(0, input, r)
        /\ LET st == SwitchBody(input, r, comb)
           IN  /\ input' = st.input
               /\ rest' = st.rest
               /\ ret' = st.ret
               /\ pc' = IF st.ret = NoRet THEN "branch" ELSE "done"
    /\ UNCHANGED <<src, orig, res, form, arg, i2, overflowChecks, ONCE, VALUE, comb, self, name>>

\* $p => $subrule!(i, ...): the result of the branch is switch!'s.
SwitchBranch ==
    /\ pc = "branch"
    /\ \E r \in Outcomes(src) :
        /\ Invoke(Head(rest).fn, input, r)
        /\ ret' = r
    /\ rest' = <<>>
    /\ pc' = "done"
    /\ UNCHANGED <<src, input, orig, res, form, arg, i2, overflowChecks, ONCE, VALUE, comb,
                   self, name>>

SwitchNext == SwitchDiscriminant \/ SwitchBranch

SpecSwitch == SwitchInit /\ [][SwitchNext]_vars

----------------------------------------------------------------------------
(* The two forms of many0 side by side                                     *)

\* Both forms are run on the same cursor with the same parser; each variable
\* of the loop holds one value per form.
Forms == {"fn", "macro"}

\* The parser is invoked by form fm on cursor p and returns r: the same
\* result as before if either form invoked it on p before.
PairInvoke(fm, p, r) ==
    /\ r \in Outcomes(p.input)
    /\ p.index \in DOMAIN fns.f => r = fns.f[p.index]
    /\ fns' = [fns EXCEPT !.f = (p.index :> r) @@ @]
    /\ calls' = Append(calls, <<fm, p, r>>)

\* The buffers of the side-by-side runs.
PairInputs == {s \in TableInputs : Len(s) <= MaxLen - 1}

PairInit ==
    /\ src \in PairInputs
    /\ orig \in Cursors(src)
    /\ input = [fm \in Forms |-> orig]
    /\ res = [fm \in Forms |-> <<>>]
    /\ ret = [fm \in Forms |-> NoRet]
    /\ pc = [fm \in Forms |-> "loop"]
    /\ fns = [f |-> <<>>]
    /\ calls = <<>>
    /\ form = "pair"
    /\ arg = 0
    /\ i2 = <<>>
    /\ rest = <<>>
    /\ overflowChecks = TRUE
    /\ ONCE = "INCOMPLETE"
    /\ VALUE = 0
    /\ comb = <<>>
    /\ self = NoRet
    /\ name = <<>>

PairApply(fm, st) ==
    /\ input' = [input EXCEPT ![fm] = st.input]
    /\ res' = [res EXCEPT ![fm] = st.res]
    /\ ret' = [ret EXCEPT ![fm] = st.ret]
    /\ pc' = [pc EXCEPT ![fm] = IF st.ret = NoRet THEN "loop" ELSE "done"]

\* One trip of synom::many0(input, f).
PairFnTrip ==
    /\ pc["fn"] = "loop"
    /\ Len(res["fn"]) < MaxIter
    /\ \E r \in Outcomes(src) :
        LET st == Many0FnBody(input["fn"], res["fn"], r)
        IN  /\ IF st.called THEN PairInvoke("fn", input["fn"], r)
                            ELSE UNCHANGED <<fns, calls>>
            /\ PairApply("fn", st)
    /\ UNCHANGED <<src, orig, form, arg, i2, rest, overflowChecks, ONCE, VALUE, comb, self, name>>

\* One trip of many0!(input, call!(f)).
PairMacroTrip ==
    /\ pc["macro"] = "loop"
    /\ Len(res["macro"]) < MaxIter
    /\ \E r \in Outcomes(src) :
        LET st == Many0MacroBody(input["macro"], res["macro"], r)
        IN  /\ IF st.called THEN PairInvoke("macro", input["macro"], r)
                            ELSE UNCHANGED <<fns, calls>>
            /\ PairApply("macro", st)
    /\ UNCHANGED <<src, orig, form, arg, i2, rest, overflowChecks, ONCE, VALUE, comb, self, name>>

PairNext == PairFnTrip \/ PairMacroTrip

SpecPair == PairInit /\ [][PairNext]_vars

----------------------------------------------------------------------------
(* Two parses run as interleaved processes                                 *)

\* In this run every variable of a parse holds one value per process.
Procs == {1, 2}

\* The buffers of the two parses.
ParInputs == StrsUpTo(MaxLen - 1)

\* The parsers many0 repeats: named! functions over the primitives.
ParParsers == InnerLeaves \cup {[op |-> "take_while1", pred |-> {"a"}]}

\* synom::many0(input, f) run to its return, f being the named! function of
\* combinator c.
RECURSIVE Many0FnLoop(_, _, _)
Many0FnLoop(c, inp, rs) ==
    LET st == Many0FnBody(inp, rs, IF IsEmpty(inp) THEN Error ELSE Eval(c, inp))
    IN  IF st.ret = NoRet THEN Many0FnLoop(c, st.input, st.res) ELSE st.ret

\* A faulty trip: the Vec the values are pushed to is one for the whole
\* program (process 1's), not a local of the call.
ParTripSharedVec(inputs, ress, combs, p) ==
    Many0FnBody(inputs[p], ress[1],
                IF IsEmpty(inputs[p]) THEN Error ELSE Eval(combs[p], inputs[p]))

\* One trip of the loop of process p's call of synom::many0: it reads and
\* writes the call's own `input` and `res`.
ParTrip(inputs, ress, combs, p) ==
    Many0FnBody(inputs[p], ress[p],
                IF IsEmpty(inputs[p]) THEN Error ELSE Eval(combs[p], inputs[p]))

ParInit ==
    /\ src \in [Procs -> ParInputs]
    /\ src[1] # src[2]
    /\ orig = [p \in Procs |-> New(src[p])]
    /\ input = orig
    /\ res = [p \in Procs |-> <<>>]
    /\ ret = [p \in Procs |-> NoRet]
    /\ pc = [p \in Procs |-> "loop"]
    /\ fns = <<>>
    /\ calls = <<>>
    /\ form = "par"
    /\ arg = 0
    /\ i2 = <<>>
    /\ rest = <<>>
    /\ overflowChecks = TRUE
    /\ ONCE = "INCOMPLETE"
    /\ VALUE = 0
    /\ comb \in [Procs -> ParParsers]
    /\ self = NoRet
    /\ name = <<>>

\* Process p runs one trip of its loop.
ParStep(p) ==
    /\ pc[p] = "loop"
    /\ LET st == ParTrip(input, res, comb, p)
       IN  /\ input' = [input EXCEPT ![p] = st.input]
           /\ res' = [res EXCEPT ![p] = st.res]
           /\ ret' = [ret EXCEPT ![p] = st.ret]
           /\ pc' = [pc EXCEPT ![p] = IF st.ret = NoRet THEN "loop" ELSE "done"]
    /\ UNCHANGED <<src, orig, fns, calls, form, arg, i2, rest, overflowChecks, ONCE, VALUE,
                   comb, self, name>>

ParNext == \E p \in Procs : ParStep(p)

SpecPar == ParInit /\ [][ParNext]_vars

----------------------------------------------------------------------------
(* Token streams: custom keywords, Ident::parse_any and Path::parse_meta   *)

\* The longest token stream.
MaxToks == 3

\* The names given to custom_keyword!.
KeywordNames == {"k", "m"}

\* The texts of identifier tokens: the custom keywords and a keyword of the
\* language, which the token stream also carries as an identifier.
IdentTexts == KeywordNames \cup {"fn"}

PunctTexts == {"::", ","}

\* A token stream: every token carries its span, here its place in the source.
TokenStreams ==
    UNION {{s \in [1..n -> [kind : {"ident", "punct"}, text : IdentTexts \cup PunctTexts,
                            span : 1..n]] :
                \A j \in 1..n : /\ s[j].span = j
                                /\ s[j].kind = "ident" <=> s[j].text \in IdentTexts} :
           n \in 0..MaxToks}

\* A cursor is a place in the stream, Len + 1 being its end.
StreamCursors(toks) == 1..(Len(toks) + 1)

\* The character U+0060 of the messages, which a string here cannot hold.
Backquote == "U+0060"

Ok(v) == [tag |-> "Ok", v |-> v]

\* cursor.error(msg): the message and the span of the token at the cursor.
Err(msg, c) == [tag |-> "Err", msg |-> msg, at |-> c]

IsOk(r) == r.tag = "Ok"

\* Cursor::ident: the identifier at the cursor and the cursor behind it.
CursorIdent(toks, c) ==
    IF c <= Len(toks) /\ toks[c].kind = "ident" THEN Some(<<toks[c], c + 1>>) ELSE None

\* ParseStream::step: the closure has run on the stream's cursor with result
\* r; on Ok((value, rest)) the stream moves to rest, on Err it stays.
Step(pos, r) ==
    IF IsOk(r) THEN [ret |-> Ok(r.v[1]), pos |-> r.v[2]] ELSE [ret |-> r, pos |-> pos]

\* ParseStream::fork: a new stream at the same cursor.
Fork(pos) == pos

\* input.peek(Token![::]).
PeekColon2(toks, c) == c <= Len(toks) /\ toks[c].text = "::"

\* input.parse::<Token![::]>().
ParseColon2(toks, pos) ==
    Step(pos, IF PeekColon2(toks, pos) THEN Ok(<<[punct |-> "::", span |-> toks[pos].span], pos + 1>>)
              ELSE Err(<<"expected ", Backquote, "::", Backquote>>, pos))

\* input.parse::<Option<Token![::]>>().
ParseOptColon2(toks, pos) ==
    IF PeekColon2(toks, pos)
    THEN LET r == ParseColon2(toks, pos)
         IN  [ret |-> IF IsOk(r.ret) THEN Ok(Some(r.ret.v)) ELSE r.ret, pos |-> r.pos]
    ELSE [ret |-> Ok(None), pos |-> pos]

\* A faulty peek: any identifier is taken for the keyword.
KeywordPeekAnyIdent(toks, c, K) == CursorIdent(toks, c).some

\* <K as CustomToken>::peek(cursor).
KeywordPeek(toks, c, K) ==
    LET id == CursorIdent(toks, c)
    IN  IF id.some THEN id.v[1].text = K ELSE FALSE

\* <K as CustomToken>::display().
KeywordDisplay(K) == <<Backquote, K, Backquote>>

\* The closure <K as Parse>::parse hands to step.
KeywordClosure(toks, c, K) ==
    LET id == CursorIdent(toks, c)
    IN  IF id.some /\ id.v[1].text = K
        THEN Ok(<<[keyword |-> K, span |-> id.v[1].span], id.v[2]>>)
        ELSE Err(<<"expected ", Backquote, K, Backquote>>, c)

\* <K as Parse>::parse(input).
KeywordParse(toks, pos, K) == Step(pos, KeywordClosure(toks, pos, K))

\* The closure Ident::parse_any hands to step.
ParseAnyClosure(toks, c) ==
    LET id == CursorIdent(toks, c)
    IN  IF id.some THEN Ok(<<id.v[1], id.v[2]>>) ELSE Err(<<"expected ident">>, c)

\* Ident::parse_any(input).
ParseAny(toks, pos) == Step(pos, ParseAnyClosure(toks, pos))

\* A faulty peek_any: it parses on the stream itself.
PeekAnyNoFork(toks, pos) ==
    LET r == ParseAny(toks, pos)
    IN  [ok |-> IsOk(r.ret), pos |-> r.pos]

\* Ident::peek_any(input): its answer and where it leaves the stream.
PeekAny(toks, pos) ==
    LET ahead == Fork(pos)
        r == ParseAny(toks, ahead)
    IN  [ok |-> IsOk(r.ret), pos |-> pos]

TokenInit ==
    /\ src \in TokenStreams
    /\ input \in StreamCursors(src)
    /\ orig = input
    /\ res = <<>>
    /\ ret = NoRet
    /\ fns = <<>>
    /\ calls = <<>>
    /\ arg = FALSE
    /\ i2 = <<>>
    /\ rest = <<>>
    /\ overflowChecks = TRUE
    /\ ONCE = "INCOMPLETE"
    /\ VALUE = 0
    /\ comb = <<>>
    /\ self = NoRet

KeywordInit ==
    /\ TokenInit
    /\ name \in KeywordNames
    /\ form = "keyword"
    /\ pc = "ready"

\* lookahead: K::peek on the stream's cursor.
KeywordPeekStep ==
    /\ form = "keyword"
    /\ pc \in {"ready", "parsed"}
    /\ arg' = KeywordPeek(src, input, name)
    /\ orig' = input
    /\ pc' = "peeked"
    /\ UNCHANGED <<src, input, res, ret, fns, calls, form, i2, rest, overflowChecks, ONCE, VALUE,
                   comb, self, name>>

\* input.parse::<K>().
KeywordParseStep ==
    /\ form = "keyword"
    /\ pc = "peeked"
    /\ LET r == KeywordParse(src, input, name)
       IN  /\ ret' = r.ret
           /\ input' = r.pos
    /\ orig' = input
    /\ pc' = "parsed"
    /\ UNCHANGED <<src, res, fns, calls, form, arg, i2, rest, overflowChecks, ONCE, VALUE,
                   comb, self, name>>

KeywordNext == KeywordPeekStep \/ KeywordParseStep

SpecKeyword == KeywordInit /\ [][KeywordNext]_vars

IdentInit ==
    /\ TokenInit
    /\ name = <<>>
    /\ form = "ident"
    /\ pc = "ready"

\* Ident::peek_any(input).
PeekAnyStep ==
    /\ form = "ident"
    /\ pc \in {"ready", "parsed"}
    /\ LET r == PeekAny(src, input)
       IN  /\ arg' = r.ok
           /\ input' = r.pos
    /\ orig' = input
    /\ pc' = "peeked"
    /\ UNCHANGED <<src, res, ret, fns, calls, form, i2, rest, overflowChecks, ONCE, VALUE,
                   comb, self, name>>

\* Ident::parse_any(input).
ParseAnyStep ==
    /\ form = "ident"
    /\ pc = "peeked"
    /\ LET r == ParseAny(src, input)
       IN  /\ ret' = r.ret
           /\ input' = r.pos
    /\ orig' = input
    /\ pc' = "parsed"
    /\ UNCHANGED <<src, res, fns, calls, form, arg, i2, rest, overflowChecks, ONCE, VALUE,
                   comb, self, name>>

IdentNext == PeekAnyStep \/ ParseAnyStep

SpecIdent == IdentInit /\ [][IdentNext]_vars

----------------------------------------------------------------------------
(* Path::parse_meta                                                        *)

\* Punctuated<PathSegment, Token![::]>: the pairs of a segment and the
\* punctuation after it, and the last segment if none follows it.
PunctuatedNew == [inner |-> <<>>, last |-> None]

PushValue(segs, v) == [segs EXCEPT !.last = Some(v)]

PushPunct(segs, pt) == [inner |-> Append(segs.inner, <<segs.last.v, pt>>), last |-> None]

PunctuatedIsEmpty(segs) == Len(segs.inner) = 0 /\ ~segs.last.some

TrailingPunct(segs) == ~segs.last.some /\ ~PunctuatedIsEmpty(segs)

\* The number of segments.
PunctuatedLen(segs) == Len(segs.inner) + (IF segs.last.some THEN 1 ELSE 0)

\* PathSegment::from(ident).
PathSegmentFrom(ident) == [ident |-> ident]

\* What a trip of the loop leaves: the stream, the segments, where the
\* function goes next and the error a `?` returned.
MetaState(pos, segs, next, rt) == [pos |-> pos, segs |-> segs, pc |-> next, ret |-> rt]

\* One trip of the loop of parse_meta.
MetaTrip(toks, pos, segs) ==
    LET pk == PeekAny(toks, pos)
    IN  IF ~pk.ok THEN MetaState(pk.pos, segs, "finish", NoRet)
        ELSE LET id == ParseAny(toks, pk.pos)
             IN  IF ~IsOk(id.ret) THEN MetaState(id.pos, segs, "done", id.ret)
                 ELSE LET segs1 == PushValue(segs, PathSegmentFrom(id.ret.v))
                      IN  IF ~PeekColon2(toks, id.pos)
                          THEN MetaState(id.pos, segs1, "finish", NoRet)
                          ELSE LET pt == ParseColon2(toks, id.pos)
                               IN  IF ~IsOk(pt.ret)
                                   THEN MetaState(pt.pos, segs1, "done", pt.ret)
                                   ELSE MetaState(pt.pos, PushPunct(segs1, pt.ret.v),
                                                  "loop", NoRet)

\* A faulty end: a path that ends with `::` is returned.
MetaFinishAcceptsTrailing(pos, colon, segs) ==
    IF PunctuatedIsEmpty(segs) THEN Err(<<"expected path">>, pos)
    ELSE Ok([leading_colon |-> colon, segments |-> segs])

\* After the loop: the two errors, or the path.
MetaFinish(pos, colon, segs) ==
    IF PunctuatedIsEmpty(segs) THEN Err(<<"expected path">>, pos)
    ELSE IF TrailingPunct(segs) THEN Err(<<"expected path segment">>, pos)
    ELSE Ok([leading_colon |-> colon, segments |-> segs])

MetaInit ==
    /\ TokenInit
    /\ name = <<>>
    /\ form = "parse_meta"
    /\ pc = "start"

\* leading_colon: input.parse()?, and segments = Punctuated::new().
MetaLeadingColon ==
    /\ form = "parse_meta"
    /\ pc = "start"
    /\ LET r == ParseOptColon2(src, input)
       IN  /\ input' = r.pos
           /\ IF IsOk(r.ret)
              THEN arg' = r.ret.v /\ ret' = ret /\ pc' = "loop"
              ELSE arg' = arg /\ ret' = r.ret /\ pc' = "done"
    /\ res' = PunctuatedNew
    /\ UNCHANGED <<src, orig, fns, calls, form, i2, rest, overflowChecks, ONCE, VALUE, comb,
                   self, name>>

MetaLoop ==
    /\ form = "parse_meta"
    /\ pc = "loop"
    /\ LET st == MetaTrip(src, input, res)
       IN  /\ input' = st.pos
           /\ res' = st.segs
           /\ pc' = st.pc
           /\ ret' = st.ret
    /\ UNCHANGED <<src, orig, fns, calls, form, arg, i2, rest, overflowChecks, ONCE, VALUE,
                   comb, self, name>>

MetaEnd ==
    /\ form = "parse_meta"
    /\ pc = "finish"
    /\ ret' = MetaFinish(input, arg, res)
    /\ pc' = "done"
    /\ UNCHANGED <<src, input, orig, res, fns, calls, form, arg, i2, rest,
                   overflowChecks, ONCE, VALUE, comb, self, name>>

MetaNext == MetaLeadingColon \/ MetaLoop \/ MetaEnd

SpecParseMeta == MetaInit /\ [][MetaNext]_vars

\* The call runs to its return: a step that can be taken is taken.
SpecParseMetaLive == SpecParseMeta /\ WF_vars(MetaNext)

----------------------------------------------------------------------------
(* The Deref impl the lazy_static! example generates                       *)

\* The threads that call deref, and the calls each of them makes.
MaxThreads == 3
MaxCalls == 2

Threads == 1 .. MaxThreads

\* A faulty deref: VALUE is read without going through ONCE.call_once.
DerefEntrySkipsOnce == "read"

\* The first statement of the unsafe block of deref.
DerefEntry == "call_once"

\* Box::into_raw(Box::new(init)): every evaluation allocates a new box;
\* evals is the evaluations so far.
InitPtr(evals) == Len(evals) + 1

\* In this run pc, ret, arg and input hold one value per thread: where the
\* thread is in deref, the reference its last call returned (0: none yet),
\* the pointer its closure has computed, and the calls it has made; calls is
\* the evaluations of the initializer and i2 the writes of VALUE, in order.
LazyInit ==
    /\ src = <<>>
    /\ input = [t \in Threads |-> 0]
    /\ orig = <<>>
    /\ res = <<>>
    /\ ret = [t \in Threads |-> 0]
    /\ pc = [t \in Threads |-> "idle"]
    /\ fns = <<>>
    /\ calls = <<>>
    /\ form = "lazy_static"
    /\ arg = [t \in Threads |-> 0]
    /\ i2 = <<>>
    /\ rest = <<>>
    /\ overflowChecks = TRUE
    /\ ONCE = "INCOMPLETE"
    /\ VALUE = 0
    /\ comb = <<>>
    /\ self = NoRet
    /\ name = <<>>

\* Thread t calls deref.
Deref(t) ==
    /\ pc[t] \in {"idle", "returned"}
    /\ input[t] < MaxCalls
    /\ input' = [input EXCEPT ![t] = @ + 1]
    /\ pc' = [pc EXCEPT ![t] = DerefEntry]
    /\ UNCHANGED <<src, orig, res, ret, fns, calls, form, arg, i2, rest,
                   overflowChecks, ONCE, VALUE, comb, self, name>>

\* ONCE.call_once(..) when no call has started: this thread runs the closure.
CallOnceRun(t) ==
    /\ pc[t] = "call_once"
    /\ ONCE = "INCOMPLETE"
    /\ ONCE' = "RUNNING"
    /\ pc' = [pc EXCEPT ![t] = "init"]
    /\ UNCHANGED <<src, input, orig, res, ret, fns, calls, form, arg, i2, rest,
                   overflowChecks, VALUE, comb, self, name>>

\* ONCE.call_once(..) when a call has completed: it returns at once. While
\* another thread runs the closure the caller is blocked.
CallOnceDone(t) ==
    /\ pc[t] = "call_once"
    /\ ONCE = "COMPLETE"
    /\ pc' = [pc EXCEPT ![t] = "read"]
    /\ UNCHANGED <<src, input, orig, res, ret, fns, calls, form, arg, i2, rest,
                   overflowChecks, ONCE, VALUE, comb, self, name>>

\* ONCE.call_once(..) after the closure panicked: the call panics.
CallOncePoisoned(t) ==
    /\ pc[t] = "call_once"
    /\ ONCE = "POISONED"
    /\ pc' = [pc EXCEPT ![t] = "panicked"]
    /\ UNCHANGED <<src, input, orig, res, ret, fns, calls, form, arg, i2, rest,
                   overflowChecks, ONCE, VALUE, comb, self, name>>

\* The closure evaluates Box::into_raw(Box::new(init)).
EvalInit(t) ==
    /\ pc[t] = "init"
    /\ arg' = [arg EXCEPT ![t] = InitPtr(calls)]
    /\ calls' = Append(calls, t)
    /\ pc' = [pc EXCEPT ![t] = "write"]
    /\ UNCHANGED <<src, input, orig, res, ret, fns, form, i2, rest,
                   overflowChecks, ONCE, VALUE, comb, self, name>>

\* The initializer panics: the closure unwinds and ONCE is poisoned.
InitPanics(t) ==
    /\ pc[t] = "init"
    /\ calls' = Append(calls, t)
    /\ ONCE' = "POISONED"
    /\ pc' = [pc EXCEPT ![t] = "panicked"]
    /\ UNCHANGED <<src, input, orig, res, ret, fns, form, arg, i2, rest,
                   overflowChecks, VALUE, comb, self, name>>

\* The closure assigns VALUE.
WriteValue(t) ==
    /\ pc[t] = "write"
    /\ VALUE' = arg[t]
    /\ i2' = Append(i2, t)
    /\ pc' = [pc EXCEPT ![t] = "complete"]
    /\ UNCHANGED <<src, input, orig, res, ret, fns, calls, form, arg, rest,
                   overflowChecks, ONCE, comb, self, name>>

\* The closure has returned: call_once marks ONCE complete and returns.
CallOnceComplete(t) ==
    /\ pc[t] = "complete"
    /\ ONCE' = "COMPLETE"
    /\ pc' = [pc EXCEPT ![t] = "read"]
    /\ UNCHANGED <<src, input, orig, res, ret, fns, calls, form, arg, i2, rest,
                   overflowChecks, VALUE, comb, self, name>>

\* &*VALUE: deref returns the reference.
ReadValue(t) ==
    /\ pc[t] = "read"
    /\ ret' = [ret EXCEPT ![t] = VALUE]
    /\ pc' = [pc EXCEPT ![t] = "returned"]
    /\ UNCHANGED <<src, input, orig, res, fns, calls, form, arg, i2, rest,
                   overflowChecks, ONCE, VALUE, comb, self, name>>

LazyNext ==
    \E t \in Threads :
        \/ Deref(t)
        \/ CallOnceRun(t)
        \/ CallOnceDone(t)
        \/ CallOncePoisoned(t)
        \/ EvalInit(t)
        \/ InitPanics(t)
        \/ WriteValue(t)
        \/ CallOnceComplete(t)
        \/ ReadValue(t)

SpecLazy == LazyInit /\ [][LazyNext]_vars

----------------------------------------------------------------------------
(* IResult::expect                                                         *)

\* The code points of the buffers expect is followed on: a token, the
\* whitespace and what comments are made of.
ExpectChars == {"a", " ", "\n", "/", "*"}

Whitespace == {" ", "\n"}

\* A comment inside a buffer after a token takes MaxLen + 2 code points.
ExpectMaxLen == MaxLen + 2

ExpectInputs == UNION {[1 .. k -> ExpectChars] : k \in 0 .. ExpectMaxLen}

\* The parser names given to expect.
Names == {<<"p">>, <<"q", "q">>}

\* The code points of the line comment r starts with: up to the end of the
\* line, the line break not included.
RECURSIVE LineCommentLen(_, _)
LineCommentLen(r, k) ==
    IF k > Len(r) \/ r[k] = "\n" THEN k - 1 ELSE LineCommentLen(r, k + 1)

\* The code points of the block comment r starts with, its closing */
\* included, from code point k on; 0 if the comment is never closed.
RECURSIVE BlockCommentLen(_, _)
BlockCommentLen(r, k) ==
    IF k + 1 > Len(r) THEN 0
    ELSE IF r[k] = "*" /\ r[k + 1] = "/" THEN k + 1
    ELSE BlockCommentLen(r, k + 1)

\* The code points of the leading run of whitespace, line comments and block
\* comments of r, skipped again and again until something else is met.
RECURSIVE SkipLen(_)
SkipLen(r) ==
    IF r = <<>> THEN 0
    ELSE IF Head(r) \in Whitespace THEN 1 + SkipLen(Tail(r))
    ELSE IF StrStartsWith(r, <<"/", "/">>)
         THEN LET n == LineCommentLen(r, 3)
              IN  n + SkipLen(SubSeq(r, n + 1, Len(r)))
    ELSE IF StrStartsWith(r, <<"/", "*">>)
         THEN LET n == BlockCommentLen(r, 3)
              IN  IF n = 0 THEN 0 ELSE n + SkipLen(SubSeq(r, n + 1, Len(r)))
    ELSE 0

\* space::skip_whitespace(input): never fails, returns the cursor after the
\* run, the same cursor if there is nothing to skip.
SkipWhitespace(p) ==
    ParseState(p.input, p.index + ByteLen(SubSeq(Rest(p), 1, SkipLen(Rest(p)))))

\* {:?} of a char inside a str: a line break is printed as \n.
EscapeDebug(c) == IF c = "\n" THEN <<"\\", "n">> ELSE <<c>>

\* {:?} of a &str: quoted, with its code points escaped.
RECURSIVE DebugStr(_)
DebugStr(s) ==
    IF s = <<>> THEN <<>> ELSE EscapeDebug(Head(s)) \o DebugStr(Tail(s))

Quoted(s) == <<"\"">> \o DebugStr(s) \o <<"\"">>

\* {:?} of a ParseState, by #[derive(Debug)]: the struct's name and its two
\* fields, the whole buffer and the byte index.
DebugParseState(p) ==
    <<"ParseState { input: ">> \o Quoted(p.input)
        \o <<", index: ", ToString(p.index), " }">>

\* panic!(...): the process aborts with the formatted message.
PanicWith(msg) == [tag |-> "Panic", msg |-> msg]

\* What a call that returns yields.
Returned(o) == [tag |-> "Returned", o |-> o]

\* A faulty expect: the rest is tested without skipping whitespace first.
ExpectNoSkip(slf, nm) ==
    IF IsDone(slf)
    THEN IF IsEmpty(slf.i) THEN Returned(slf.o)
         ELSE PanicWith(<<"unparsed tokens after ">> \o nm \o <<": ">>
                            \o DebugParseState(slf.i))
    ELSE PanicWith(<<"failed to parse ">> \o nm)

\* self.expect(name)
Expect(slf, nm) ==
    IF IsDone(slf)
    THEN LET rst == SkipWhitespace(slf.i)
         IN  IF IsEmpty(rst) THEN Returned(slf.o)
             ELSE PanicWith(<<"unparsed tokens after ">> \o nm \o <<": ">>
                                \o DebugParseState(rst))
    ELSE PanicWith(<<"failed to parse ">> \o nm)

ExpectInit ==
    /\ src \in ExpectInputs
    /\ input = New(src)
    /\ orig = New(src)
    /\ res = <<>>
    /\ ret = NoRet
    /\ pc = "expect"
    /\ fns = <<>>
    /\ calls = <<>>
    /\ form = "expect"
    /\ arg = 0
    /\ i2 = <<>>
    /\ rest = <<>>
    /\ overflowChecks = TRUE
    /\ ONCE = "INCOMPLETE"
    /\ VALUE = 0
    /\ comb = <<>>
    /\ self \in Outcomes(src)
    /\ name \in Names

\* let o = self.expect(name): a panic ends the process.
ExpectCall ==
    /\ pc = "expect"
    /\ ret' = Expect(self, name)
    /\ pc' = IF Expect(self, name).tag = "Panic" THEN "aborted" ELSE "returned"
    /\ UNCHANGED <<src, input, orig, res, fns, calls, form, arg, i2, rest,
                   overflowChecks, ONCE, VALUE, comb, self, name>>

ExpectNext == ExpectCall

SpecExpect == ExpectInit /\ [][ExpectNext]_vars

----------------------------------------------------------------------------
(* Claims about the cursor                                                 *)

\* C9: advance(n) aborts whenever n exceeds the remaining length and never
\* returns a cursor (or an IResult::Error) for it; when n is at most the
\* remaining length it returns the cursor over the same buffer at offset + n.
C9_AdvanceAbortsPastEnd ==
    pc \in {"advanced", "aborted"} =>
        IF arg > ByteLen(src) - orig.index
        THEN pc = "aborted" /\ ret = Panic /\ input = orig
        ELSE pc = "advanced" /\ ret = ParseState(src, orig.index + arg)

\* C10: every cursor reached from new through advance and finish calls has
\* 0 <= offset <= buffer length, and advance(n), for every machine word n,
\* either aborts or returns a cursor whose offset is not smaller than the
\* offset of the cursor it was called on.
C10_OffsetInRangeAndMonotone ==
    /\ 0 <= input.index /\ input.index <= ByteLen(input.input)
    /\ pc = "advanced" => input.index >= orig.index

----------------------------------------------------------------------------
(* Claims about many0                                                      *)

\* Invocation k of the history: who was invoked, on which cursor, and what
\* it returned.
CallAt(k) == calls[k][2]

CallResult(k) == calls[k][3]

\* Invocation k succeeded and returned a cursor with the same remaining
\* length as the cursor it was given.
Stalled(k) == IsDone(CallResult(k)) /\ PLen(CallResult(k).i) = PLen(CallAt(k))

\* C1: in both forms of many0, whenever an application of the inner parser
\* to the loop's cursor succeeds without changing the remaining length,
\* many0 returns Error for the whole repetition: that application is the
\* last one and the values collected so far are not returned.
C1_NonAdvancingIsFailure ==
    \A k \in 1 .. Len(calls) :
        Stalled(k) => k = Len(calls) /\ pc = "done" /\ ret = Error

C1_Witness ==
    /\ form = "macro"
    /\ pc = "done"
    /\ Len(res) >= 1
    /\ Len(calls) = Len(res) + 1
    /\ Stalled(Len(calls))
    /\ ret = Error

\* C2: many0 never loops forever: whatever the inner parser, the loop
\* accumulates at most as many values as the cursor it started on has bytes
\* left, because every trip that accumulates a value strictly decreases the
\* remaining length of the loop's cursor.
C2_Many0AlwaysConsumes ==
    /\ [](Len(res) <= PLen(orig))
    /\ [][Len(res') > Len(res) => PLen(input') < PLen(input)]_vars

\* C7: when no trip is non-advancing, many0 stops at the first cursor where
\* the inner parser fails or the input is empty and returns Done with the
\* values of the successful applications in order and the cursor of the last
\* of them (the original cursor if there is none); the inner parser's
\* failure is never many0's failure.
C7_NaturalTermination ==
    (pc = "done" /\ \A k \in 1 .. Len(calls) : ~Stalled(k)) =>
        LET n == Len(res)
        IN  /\ ret = Done(input, res)
            /\ n <= Len(calls)
            /\ \A k \in 1 .. n :
                /\ IsDone(CallResult(k))
                /\ CallResult(k).o = res[k]
                /\ ~IsEmpty(CallAt(k))
                /\ CallAt(k) = IF k = 1 THEN orig ELSE CallResult(k - 1).i
            /\ input = IF n = 0 THEN orig ELSE CallResult(n).i
            /\ \/ IsEmpty(input) /\ Len(calls) = n
               \/ /\ ~IsEmpty(input)
                  /\ Len(calls) = n + 1
                  /\ CallAt(n + 1) = input
                  /\ CallResult(n + 1) = Error

C7_Witness ==
    /\ form = "fn"
    /\ pc = "done"
    /\ Len(res) = 2
    /\ res[1] # res[2]
    /\ Len(calls) = 3
    /\ CallResult(3) = Error
    /\ ret = Done(input, res)

----------------------------------------------------------------------------
(* Claims about separated_nonempty_list                                    *)

IsItemCall(c) == c[1] = "item"

\* The values of the item applications among the first k invocations.
ItemValues(k) ==
    LET items == SelectSeq(SubSeq(calls, 1, k), IsItemCall)
    IN  [j \in 1 .. Len(items) |-> items[j][3].o]

\* Invocation k applied the item right after a separator that matched, and
\* the item failed or did not advance.
ItemMissingAfterSeparator(k) ==
    /\ calls[k][1] = "item"
    /\ calls[k - 1][1] = "sep"
    /\ IsDone(CallResult(k - 1))
    /\ CallResult(k) = Error \/ Stalled(k)

\* C5: on success the list is non-empty; and whenever a separator matches
\* but the item after it fails or does not advance, the loop stops and
\* returns the cursor the separator was applied to (the separator is not
\* consumed) with the items accumulated before it.
C5_TrailingSeparatorUnconsumed ==
    /\ (pc = "done" /\ IsDone(ret)) => Len(ret.o) >= 1
    /\ \A k \in 2 .. Len(calls) :
        ItemMissingAfterSeparator(k) =>
            /\ k = Len(calls)
            /\ pc = "done"
            /\ ret = Done(CallAt(k - 1), ItemValues(k - 1))
            /\ PLen(CallResult(k - 1).i) # PLen(ret.i)

\* One item, then a separator that matches and advances, then no item.
C5_Witness ==
    /\ pc = "done"
    /\ Len(calls) = 3
    /\ ItemMissingAfterSeparator(3)
    /\ CallResult(3) = Error
    /\ ret = Done(CallAt(2), <<CallResult(1).o>>)
    /\ CallAt(2).index < CallResult(2).i.index

\* C6 as stated: separated_nonempty_list fails only if the first item
\* application fails; whenever the first application of item succeeds, the
\* list parser returns a success.
C6_FailsOnlyIfFirstItemFails ==
    (pc = "done" /\ IsDone(CallResult(1))) => IsDone(ret)

\* C6 as amended: separated_nonempty_list returns Error exactly when the
\* first application of item fails or succeeds without changing the
\* remaining length; once the first application has succeeded and changed
\* the remaining length, whatever it returns is a success.
C6_FailsIffFirstItemFailsOrStalls ==
    pc = "done" =>
        /\ ret = Error <=> (CallResult(1) = Error \/ Stalled(1))
        /\ ret = Error => Len(calls) = 1
        /\ ret # Error => IsDone(ret)

C6_Witness ==
    /\ pc = "done"
    /\ Stalled(1)
    /\ ret = Error

----------------------------------------------------------------------------
(* Claims about alt                                                        *)

\* C3: alt is left-biased: if the first alternative succeeds on the cursor,
\* alt's result is that alternative's result (same cursor, same value, after
\* its own mapping if it has one) and no later alternative is consulted.
C3_LeftBiased ==
    (Len(calls) >= 1 /\ IsDone(CallResult(1))) =>
        /\ pc = "done"
        /\ Len(calls) = 1
        /\ \A k \in 2 .. Len(comb) : fns[k] = <<>>
        /\ ret = IF comb[1].gen
                 THEN Done(CallResult(1).i, Gen(1, CallResult(1).o))
                 ELSE CallResult(1)

C3_Witness ==
    /\ pc = "done"
    /\ Len(comb) = 2
    /\ comb[1].gen
    /\ IsDone(CallResult(1))
    /\ CallResult(1).i # orig
    /\ ret = Done(CallResult(1).i, Gen(1, CallResult(1).o))

\* C4: alt applies every alternative it tries to the original cursor, tries
\* them left to right and only after the ones before have failed, returns
\* the first success, and returns Error exactly when every alternative has
\* failed on the original cursor.
C4_SameCursorFirstSuccess ==
    LET n == Len(calls)
    IN  /\ \A k \in 1 .. n :
            /\ calls[k][1] = k
            /\ CallAt(k) = orig
            /\ k < n => CallResult(k) = Error
        /\ pc = "done" =>
            /\ n >= 1
            /\ IsDone(CallResult(n)) => ret = AltDone(comb[n], CallResult(n))
            /\ ret = Error <=>
                (n = Len(comb) /\ \A k \in 1 .. n : CallResult(k) = Error)
            /\ ret # Error => IsDone(CallResult(n))

C4_Witness ==
    /\ pc = "done"
    /\ Len(comb) = 3
    /\ Len(calls) = 2
    /\ CallResult(1) = Error
    /\ IsDone(CallResult(2))
    /\ ret = AltDone(comb[2], CallResult(2))

----------------------------------------------------------------------------
(* Claims about every combinator                                           *)

\* C8: monotonic advancement: whenever a combinator built from the
\* primitives and compositions succeeds on a cursor, the cursor it returns
\* is over the same buffer, its offset is not smaller and its remaining
\* length is not greater than those of the cursor it was given.
C8_MonotonicAdvancement ==
    (pc = "done" /\ IsDone(ret)) =>
        /\ ret.i.input = input.input
        /\ ret.i.index >= input.index
        /\ PLen(ret.i) <= PLen(input)

C8_Witness ==
    /\ pc = "done"
    /\ comb.op = "many0"
    /\ input.index > 0
    /\ IsDone(ret)
    /\ Len(ret.o) = 2
    /\ PLen(ret.i) < PLen(input)

----------------------------------------------------------------------------
(* Claims about IResult::expect                                            *)

\* C11: expect(name) returns the parsed value if and only if the result is
\* Done and the cursor it holds is empty once trailing whitespace and
\* comments have been skipped; on Done with anything else left, and on
\* Error, it panics and returns no value.
C11_ExpectReturnsIffFullyConsumed ==
    pc \in {"returned", "aborted"} =>
        /\ pc = "returned" <=> (IsDone(self) /\ IsEmpty(SkipWhitespace(self.i)))
        /\ pc = "returned" => ret = Returned(self.o)
        /\ pc = "aborted" => ret.tag = "Panic" /\ "o" \notin DOMAIN ret

\* A parse that stopped inside the buffer, followed by whitespace and a
\* comment only.
C11_Witness ==
    /\ pc = "returned"
    /\ Len(src) >= 1
    /\ Head(src) = "a"
    /\ self.i.index = 1
    /\ PLen(self.i) >= 3
    /\ \E k \in 1 .. Len(Rest(self.i)) : Rest(self.i)[k] = " "
    /\ \E k \in 1 .. Len(Rest(self.i)) : Rest(self.i)[k] = "/"
    /\ ret = Returned(self.o)

\* The text a panic message quotes: what stands between its quote marks.
MessageText(msg) ==
    LET quotes == {k \in 1 .. Len(msg) : msg[k] = "\""}
        first  == CHOOSE k \in quotes : \A j \in quotes : k <= j
        last   == CHOOSE k \in quotes : \A j \in quotes : k >= j
    IN  IF quotes = {} THEN <<>> ELSE SubSeq(msg, first + 1, last - 1)

\* The message carries the parser's name right after its opening words.
NamesParser(msg, nm) == SubSeq(msg, 2, Len(nm) + 1) = nm

\* C12: the panic of expect on a successful parse that leaves input other
\* than whitespace names the parser and the unparsed remainder: the text the
\* message quotes is the remainder ("b" for a parse of "a" out of "a b");
\* the panic of expect on Error names the parser.
C12_ErrorNamesRemainder ==
    pc = "aborted" =>
        /\ NamesParser(ret.msg, name)
        /\ IsDone(self) =>
            MessageText(ret.msg) = DebugStr(Rest(SkipWhitespace(self.i)))

----------------------------------------------------------------------------
(* Claims about the primitives                                             *)

\* s holds lit from code point k + 1 on.
OccursAt(lit, s, k) ==
    /\ k + Len(lit) <= Len(s)
    /\ \A j \in 1 .. Len(lit) : s[k + j] = lit[j]

\* C13: tag(literal) succeeds exactly when the remaining input starts with
\* the literal; its value is then the literal and its cursor is advanced by
\* the literal's length in bytes, the rest of the input left; otherwise it
\* returns Error, which holds no cursor.
C13_TagMatchesPrefix ==
    (pc = "done" /\ comb.op = "tag") =>
        LET r == Rest(input)
        IN  IF OccursAt(comb.lit, r, 0)
            THEN /\ IsDone(ret)
                 /\ ret.o = comb.lit
                 /\ ret.i = ParseState(src, input.index + ByteLen(comb.lit))
                 /\ Rest(ret.i) = SubSeq(r, Len(comb.lit) + 1, Len(r))
            ELSE ret = Error /\ "i" \notin DOMAIN ret

\* A two-byte literal matched in the middle of the buffer.
C13_Witness ==
    /\ pc = "done"
    /\ comb.op = "tag"
    /\ comb.lit = <<"w">>
    /\ input.index = 1
    /\ IsDone(ret)
    /\ ret.i.index = 3
    /\ PLen(ret.i) > 0

\* C14: take_until(literal), for every input and every literal, succeeds
\* exactly when the literal occurs in the remaining input; its value is then
\* the slice before the first occurrence and its cursor stands at that
\* occurrence, the literal unconsumed; if the literal does not occur it
\* returns Error.
C14_TakeUntilFindsFirst ==
    (pc = "done" /\ comb.op = "take_until") =>
        LET r   == Rest(input)
            occ == {k \in 0 .. Len(r) : OccursAt(comb.lit, r, k)}
        IN  IF occ # {}
            THEN LET first == CHOOSE k \in occ : \A j \in occ : k <= j
                 IN  /\ IsDone(ret)
                     /\ ret.o = SubSeq(r, 1, first)
                     /\ Rest(ret.i) = SubSeq(r, first + 1, Len(r))
                     /\ OccursAt(comb.lit, Rest(ret.i), 0)
            ELSE ret = Error

\* The leading run of r that satisfies pred, in code points.
RunLen(r, pred) ==
    CHOOSE n \in 0 .. Len(r) :
        /\ \A j \in 1 .. n : r[j] \in pred
        /\ n < Len(r) => r[n + 1] \notin pred

\* C15: take_while1(predicate) succeeds exactly when the first code point of
\* the remaining input satisfies the predicate; it then consumes the maximal
\* leading run that satisfies it (the whole remainder, leaving an empty
\* cursor, if every code point does) and its value is that run; on empty
\* input and on a first code point that fails the predicate it returns Error.
C15_TakeWhile1MaximalRun ==
    (pc = "done" /\ comb.op = "take_while1") =>
        LET r == Rest(input)
            n == RunLen(r, comb.pred)
        IN  /\ IsDone(ret) <=> (r # <<>> /\ r[1] \in comb.pred)
            /\ ~IsDone(ret) => ret = Error
            /\ IsDone(ret) =>
                /\ n >= 1
                /\ ret.o = SubSeq(r, 1, n)
                /\ ret.i = ParseState(src, input.index + ByteLen(ret.o))
                /\ Rest(ret.i) = SubSeq(r, n + 1, Len(r))
                /\ n = Len(r) => IsEmpty(ret.i)

\* A run with a two-byte code point in it, stopped by a code point that
\* fails the predicate.
C15_Witness ==
    /\ pc = "done"
    /\ comb.op = "take_while1"
    /\ input.index > 0
    /\ IsDone(ret)
    /\ \E k \in 1 .. Len(ret.o) : ret.o[k] = "w"
    /\ PLen(ret.i) > 0

----------------------------------------------------------------------------
(* Claims about not, peek and cond                                         *)

\* The invocations of parser who so far.
CallsOf(who) == {k \in 1 .. Len(calls) : calls[k][1] = who}

\* C16: not(c) applies c to the cursor it is given, once; it succeeds, with
\* the empty value and that very cursor, exactly when c fails there, and it
\* fails exactly when c succeeds there.
C16_NegativeLookahead ==
    (comb.op = "not" /\ pc \in {"done", "followed"}) =>
        /\ CallsOf("c") = {1}
        /\ CallAt(1) = orig
        /\ ret = Done(orig, <<>>) <=> CallResult(1) = Error
        /\ ret = Error <=> IsDone(CallResult(1))
        /\ ret \in {Error, Done(orig, <<>>)}

\* c fails in the middle of the buffer, and the step after not sees the
\* cursor not was given.
C16_Witness ==
    /\ comb.op = "not"
    /\ pc = "followed"
    /\ orig.index > 0
    /\ ~IsEmpty(orig)
    /\ CallResult(1) = Error
    /\ ret = Done(orig, <<>>)
    /\ CallAt(2) = orig

C18_CondShortCircuits ==
    (comb.op = "cond" /\ pc \in {"done", "followed"}) =>
        IF comb.b
        THEN /\ CallsOf("c") = {1}
             /\ CallAt(1) = orig
             /\ IsDone(CallResult(1)) =>
                    ret = Done(CallResult(1).i, Some(CallResult(1).o))
             /\ CallResult(1) = Error => ret = Error
        ELSE /\ CallsOf("c") = {}
             /\ fns.c = <<>>
             /\ ret = Done(orig, None)

\* A false condition in front of input that is left for the next step.
C18_Witness ==
    /\ comb.op = "cond"
    /\ ~comb.b
    /\ pc = "followed"
    /\ ~IsEmpty(orig)
    /\ ret = Done(orig, None)
    /\ Len(calls) = 1
    /\ calls[1][1] = "next"
    /\ CallAt(1) = orig

----------------------------------------------------------------------------
(* Claims about tuple and delimited                                        *)

\* The invocations so far are of parsers 1, 2, ... in order, each on the
\* cursor the one before it returned, the first on the original cursor, and
\* every one but the last succeeded.
Threaded ==
    \A k \in 1 .. Len(calls) :
        /\ calls[k][1] = k
        /\ CallAt(k) = IF k = 1 THEN orig ELSE CallResult(k - 1).i
        /\ k < Len(calls) => IsDone(CallResult(k))

\* C19: tuple(c1, ..., cN) invokes the parsers in order, each on the cursor
\* the one before it returned; it fails at the first that fails and invokes
\* none after it; on success its value is the tuple of all the values in
\* order (the value itself when N is 1) and its cursor is the one cN
\* returned.
C19_TupleThreadsCursor ==
    comb.op = "tuple" =>
        /\ Threaded
        /\ pc = "done" =>
            LET n == Len(calls)
            IN  /\ n >= 1
                /\ ret = Error <=> CallResult(n) = Error
                /\ ret = Error => \A k \in (n + 1) .. comb.n : fns[k] = <<>>
                /\ ret # Error =>
                    /\ n = comb.n
                    /\ ret = Done(CallResult(n).i,
                                  IF n = 1 THEN CallResult(1).o
                                  ELSE [k \in 1 .. n |-> CallResult(k).o])

\* Three parsers, each consuming, with values that differ.
C19_Witness ==
    /\ comb.op = "tuple"
    /\ comb.n = 3
    /\ pc = "done"
    /\ IsDone(ret)
    /\ \A k \in 1 .. 3 : CallResult(k).i.index > CallAt(k).index
    /\ ret.o = <<"x", "y", "x">>
    /\ IsEmpty(ret.i)

\* C20: delimited(opener, body, closer) succeeds exactly when the three
\* succeed in sequence, each on the cursor the one before it returned; its
\* value is the body's value alone and its cursor the one after the closer;
\* if the closer fails at the cursor the body left, the result is Error,
\* which holds neither the body's value nor a cursor.
C20_DelimitedBodyOnly ==
    comb.op = "delimited" =>
        /\ Threaded
        /\ pc = "done" =>
            /\ IsDone(ret) <=>
                (Len(calls) = 3 /\ \A k \in 1 .. 3 : IsDone(CallResult(k)))
            /\ IsDone(ret) => ret = Done(CallResult(3).i, CallResult(2).o)
            /\ ~IsDone(ret) => ret = Error /\ DOMAIN ret = {"tag"}

\* Opener and body match and consume, the closer does not match where the
\* body stopped.
C20_Witness ==
    /\ comb.op = "delimited"
    /\ pc = "done"
    /\ Len(calls) = 3
    /\ CallResult(1).i.index > orig.index
    /\ CallResult(2).i.index > CallResult(1).i.index
    /\ ~IsEmpty(CallAt(3))
    /\ CallResult(3) = Error
    /\ ret = Error

----------------------------------------------------------------------------
(* Claims about do_parse and switch                                        *)

\* The values of the first n steps that bind, in order.
RECURSIVE BoundValues(_)
BoundValues(n) ==
    IF n = 0 THEN <<>>
    ELSE IF comb[n].bind THEN Append(BoundValues(n - 1), CallResult(n).o)
    ELSE BoundValues(n - 1)

\* C21: do_parse runs its steps in order, each on the cursor the step before
\* it returned; it returns Error at the first step that fails, without
\* running a later step or evaluating the final expression; when every step
\* succeeds the result is the final expression over the bound values, with
\* the cursor the last step returned (the original cursor if there is no
\* step).
C21_DoParseInOrder ==
    form = "do_parse" =>
        /\ Threaded
        /\ pc = "done" =>
            LET n == Len(calls)
            IN  /\ ret = Error <=> (n >= 1 /\ CallResult(n) = Error)
                /\ ret = Error =>
                    /\ \A k \in (n + 1) .. Len(comb) : fns[k] = <<>>
                    /\ DOMAIN ret = {"tag"}
                /\ ret # Error =>
                    /\ n = Len(comb)
                    /\ ret = Done(IF n = 0 THEN orig ELSE CallResult(n).i,
                                  FinalExpr(BoundValues(n)))

\* Three steps that consume, the middle one unnamed.
C21_Witness ==
    /\ form = "do_parse"
    /\ pc = "done"
    /\ Len(comb) = 3
    /\ comb[1].bind /\ ~comb[2].bind /\ comb[3].bind
    /\ Len(calls) = 3
    /\ IsDone(ret)
    /\ \A k \in 1 .. 3 : CallResult(k).i.index > CallAt(k).index
    /\ CallResult(1).o # CallResult(3).o
    /\ ret = Done(CallResult(3).i, FinalExpr(<<CallResult(1).o, CallResult(3).o>>))

\* C22: switch fails if the discriminant fails; otherwise it runs exactly
\* one branch, the first whose pattern matches the discriminant's value, on
\* the cursor the discriminant returned, and returns that branch's result;
\* it returns Error if no pattern matches or the selected branch fails.
C22_SwitchRunsFirstMatch ==
    (form = "switch" /\ pc = "done") =>
        /\ calls[1][1] = 0
        /\ CallAt(1) = orig
        /\ IF CallResult(1) = Error
           THEN Len(calls) = 1 /\ ret = Error
           ELSE LET matching == {k \in 1 .. Len(comb) : comb[k].pat = CallResult(1).o}
                IN  IF matching = {}
                    THEN Len(calls) = 1 /\ ret = Error
                    ELSE LET first == CHOOSE k \in matching : \A j \in matching : k <= j
                         IN  /\ Len(calls) = 2
                             /\ calls[2][1] = first
                             /\ CallAt(2) = CallResult(1).i
                             /\ ret = CallResult(2)
                             /\ \A k \in 1 .. Len(comb) : k # first => fns[k] = <<>>

\* Two arms with the same pattern: the first one runs, where the
\* discriminant stopped.
C22_Witness ==
    /\ form = "switch"
    /\ pc = "done"
    /\ Len(comb) = 2
    /\ comb[1].pat = comb[2].pat
    /\ Len(calls) = 2
    /\ CallResult(1).i.index > orig.index
    /\ calls[2][1] = 1
    /\ CallAt(2) = CallResult(1).i
    /\ IsDone(ret)

----------------------------------------------------------------------------
(* Claims about independent parses                                         *)

\* C23: two parses over different buffers, run as interleaved processes in
\* any order, need no coordination: the result of each (Done with its cursor
\* and values, or Error) is the result the parse produces when run alone,
\* a step of one process leaves the cursor, values and result of the other
\* as they were, and no buffer is modified.
C23_IndependentParses ==
    /\ [](\A p \in Procs :
            /\ input[p].input = src[p]
            /\ pc[p] = "done" => ret[p] = Many0FnLoop(comb[p], orig[p], <<>>))
    /\ [][/\ src' = src
          /\ \A p \in Procs :
                <<input[p], res[p], ret[p], pc[p]>>' # <<input[p], res[p], ret[p], pc[p]>> =>
                    \A q \in Procs \ {p} :
                        <<input[q], res[q], ret[q], pc[q]>>' = <<input[q], res[q], ret[q], pc[q]>>]_vars

\* Both parses have returned the values they collected, and the values of
\* the first are not those of the second.
C23_Witness ==
    /\ form = "par"
    /\ \A p \in Procs : pc[p] = "done" /\ IsDone(ret[p]) /\ Len(ret[p].o) >= 1
    /\ Len(ret[1].o) >= 2
    /\ ret[1].o # ret[2].o

----------------------------------------------------------------------------
(* Claims about custom keywords and Ident::peek_any                        *)

IsKeywordAt(toks, c, K) == c <= Len(toks) /\ toks[c].kind = "ident" /\ toks[c].text = K

\* C24: for the type custom_keyword!(K) generates, at every place of the
\* stream peek is true exactly when parse there would succeed, which is
\* exactly when the next token is an identifier of text K; a parse that
\* succeeds moves the stream over that one identifier and carries its span;
\* otherwise parse returns the error "expected `K`" and the stream stays.
C24_KeywordPeekIffParse ==
    /\ \A c \in StreamCursors(src) :
          /\ KeywordPeek(src, c, name) <=> IsOk(KeywordParse(src, c, name).ret)
          /\ KeywordPeek(src, c, name) <=> IsKeywordAt(src, c, name)
    /\ pc = "peeked" => input = orig
    /\ pc = "parsed" =>
          /\ arg <=> IsOk(ret)
          /\ IsOk(ret) =>
                /\ IsKeywordAt(src, orig, name)
                /\ input = orig + 1
                /\ ret.v = [keyword |-> name, span |-> src[orig].span]
          /\ ~IsOk(ret) =>
                /\ ~IsKeywordAt(src, orig, name)
                /\ ret.tag = "Err"
                /\ ret.msg = <<"expected ", Backquote, name, Backquote>>
                /\ input = orig

\* The keyword was parsed behind another token, and the stream moved over it.
C24_Witness ==
    /\ form = "keyword"
    /\ pc = "parsed"
    /\ IsOk(ret)
    /\ orig >= 2
    /\ input = orig + 1
    /\ arg = TRUE

\* A parse of the keyword failed on another identifier.
C24_WitnessErr ==
    /\ form = "keyword"
    /\ pc = "parsed"
    /\ ~IsOk(ret)
    /\ orig <= Len(src)
    /\ src[orig].kind = "ident"

\* C25: Ident::peek_any never moves the stream, and it is true exactly when
\* Ident::parse_any at the same place would succeed, that is when the next
\* token is an identifier, a keyword of the language included.
C25_PeekAnyIffParseAny ==
    /\ \A c \in StreamCursors(src) :
          /\ PeekAny(src, c).pos = c
          /\ PeekAny(src, c).ok <=> IsOk(ParseAny(src, c).ret)
          /\ PeekAny(src, c).ok <=> (c <= Len(src) /\ src[c].kind = "ident")
    /\ pc = "peeked" => input = orig
    /\ pc = "parsed" =>
          /\ arg <=> IsOk(ret)
          /\ IsOk(ret) <=> (orig <= Len(src) /\ src[orig].text \in IdentTexts)
          /\ IsOk(ret) => ret.v = src[orig] /\ input = orig + 1
          /\ ~IsOk(ret) => input = orig

\* peek_any answered true on the keyword `fn` and left the stream in place.
C25_Witness ==
    /\ form = "ident"
    /\ pc = "peeked"
    /\ arg = TRUE
    /\ input = orig
    /\ input <= Len(src)
    /\ src[input].text = "fn"

----------------------------------------------------------------------------
(* Claims about termination of the loops                                   *)

\* C26: separated_nonempty_list terminates for every separator and item: a
\* separator that succeeds without consuming ends the loop, an item that
\* succeeds without consuming after a separator ends the loop, and every
\* iteration that continues the loop strictly decreases the remaining length
\* of the loop's cursor.
C26_SepListAlwaysConsumes ==
    [][/\ pc = "sep" /\ calls' # calls /\ Stalled(Len(calls))' => pc' = "done"
       /\ pc = "item" /\ calls' # calls /\ Stalled(Len(calls))' => pc' = "done"
       /\ pc = "item" /\ pc' = "sep" => PLen(input') < PLen(input)]_vars

\* The two halves about parsers that do not consume, which do hold.
C26_NonConsumingEndsLoop ==
    [][/\ pc = "sep" /\ calls' # calls /\ Stalled(Len(calls))' => pc' = "done"
       /\ pc = "item" /\ calls' # calls /\ Stalled(Len(calls))' => pc' = "done"]_vars

\* C27: in both forms, many0 on an empty cursor returns Done with that
\* cursor and the values collected so far (none when it started there)
\* without calling the inner parser: no call is ever made on an empty cursor,
\* so no non-advancing failure is raised at the end of the input, whatever
\* the inner parser would return there.
C27_EmptyCursorNoCall ==
    /\ \A k \in 1 .. Len(calls) : ~IsEmpty(CallAt(k))
    /\ (pc = "done" /\ IsEmpty(input)) => ret = Done(input, res)
    /\ (pc = "done" /\ IsEmpty(orig)) => ret = Done(orig, <<>>) /\ calls = <<>>

\* The loop reached the end of the input with values collected and returned
\* them, the inner parser having been called once for each.
C27_Witness ==
    /\ form = "fn"
    /\ pc = "done"
    /\ IsEmpty(input)
    /\ Len(res) >= 2
    /\ Len(calls) = Len(res)
    /\ ret = Done(input, res)

----------------------------------------------------------------------------
(* Claims about the two forms of many0                                     *)

\* The cursors form fm has invoked the parser on, in order.
RECURSIVE CursorsOf(_, _)
CursorsOf(fm, cs) ==
    IF cs = <<>> THEN <<>>
    ELSE IF Head(cs)[1] = fm THEN <<Head(cs)[2]>> \o CursorsOf(fm, Tail(cs))
    ELSE CursorsOf(fm, Tail(cs))

IsPrefix(s, u) == Len(s) <= Len(u) /\ SubSeq(u, 1, Len(s)) = s

\* C28: the inline arm many0!(submac!(...)) and synom::many0(input, f) are
\* equivalent: run on the same cursor with the same parser, the cursors one
\* form has invoked the parser on and the values it has collected are at
\* every moment a prefix of the other's or the other way round, and once
\* both have returned their results are identical (the same Done cursor and
\* values, or Error) and they invoked the parser on the same cursors.
C28_Many0FormsEquivalent ==
    LET fc == CursorsOf("fn", calls)
        mc == CursorsOf("macro", calls)
    IN  /\ IsPrefix(fc, mc) \/ IsPrefix(mc, fc)
        /\ IsPrefix(res["fn"], res["macro"]) \/ IsPrefix(res["macro"], res["fn"])
        /\ (pc["fn"] = "done" /\ pc["macro"] = "done") =>
              /\ ret["fn"] = ret["macro"]
              /\ fc = mc

\* Both forms returned the same two values after the same calls.
C28_Witness ==
    /\ form = "pair"
    /\ pc["fn"] = "done"
    /\ pc["macro"] = "done"
    /\ IsDone(ret["fn"])
    /\ Len(ret["fn"].o) = 2
    /\ ret["macro"] = ret["fn"]
    /\ Len(CursorsOf("macro", calls)) >= 2
    /\ CursorsOf("macro", calls) = CursorsOf("fn", calls)

\* Both forms returned Error on a trip that did not consume.
C28_WitnessError ==
    /\ form = "pair"
    /\ pc["fn"] = "done"
    /\ pc["macro"] = "done"
    /\ ret["fn"] = Error
    /\ ret["macro"] = Error
    /\ Len(res["macro"]) >= 1

----------------------------------------------------------------------------
(* Claims about Path::parse_meta                                           *)

IsIdentAt(toks, c) == c <= Len(toks) /\ toks[c].kind = "ident"

\* Where the first segment is looked for: behind the leading `::` if any.
SegmentStart == IF PeekColon2(src, orig) THEN orig + 1 ELSE orig

\* The tokens from s up to q - 1 are identifiers and `::` in turn.
Alternates(toks, s, q) ==
    \A j \in s .. (q - 1) :
        IF (j - s) % 2 = 0 THEN IsIdentAt(toks, j) ELSE PeekColon2(toks, j)

\* C29: the segment loop of Path::parse_meta terminates (every trip that
\* goes round again moves the stream forward, and the call returns); when it
\* returns Ok the path has at least one segment and does not end with `::`;
\* no identifier at the place of the first segment gives the error
\* "expected path", and a `::` that no identifier follows (keywords are
\* identifiers) gives the error "expected path segment".
C29_ParseMetaPath ==
    /\ [](input \in StreamCursors(src))
    /\ [][pc = "loop" /\ pc' = "loop" => input' > input]_vars
    /\ <>(pc = "done")
    /\ [](pc = "done" =>
            /\ IsOk(ret) =>
                  /\ ~PunctuatedIsEmpty(ret.v.segments)
                  /\ ~TrailingPunct(ret.v.segments)
                  /\ IsIdentAt(src, input - 1)
                  /\ Alternates(src, SegmentStart, input)
                  /\ 2 * PunctuatedLen(ret.v.segments) = input - SegmentStart + 1
            /\ ~IsIdentAt(src, SegmentStart) => ret = Err(<<"expected path">>, SegmentStart)
            /\ \A q \in StreamCursors(src) :
                  (/\ q > SegmentStart
                   /\ Alternates(src, SegmentStart, q)
                   /\ PeekColon2(src, q - 1)
                   /\ ~IsIdentAt(src, q)) => ret = Err(<<"expected path segment">>, q))

\* A path of two segments, the second the keyword `fn`, was returned.
C29_Witness ==
    /\ form = "parse_meta"
    /\ pc = "done"
    /\ IsOk(ret)
    /\ PunctuatedLen(ret.v.segments) = 2
    /\ ret.v.segments.last.v.ident.text = "fn"

\* A `::` at the end of the stream gave "expected path segment".
C29_WitnessTrailing ==
    /\ form = "parse_meta"
    /\ pc = "done"
    /\ ~IsOk(ret)
    /\ ret.tag = "Err"
    /\ ret.msg = <<"expected path segment">>
    /\ input = Len(src) + 1

----------------------------------------------------------------------------
(* Claims about the generated Deref impl                                   *)

\* C30: whatever the number of threads calling deref and their interleaving,
\* the initializer is evaluated at most once and VALUE written at most once,
\* and exactly once when a call has got past call_once; no call reads VALUE
\* before that write has completed (a read never sees the null pointer), and
\* every call returns a reference to the same value.
C30_InitialisedOnce ==
    /\ Len(calls) <= 1
    /\ Len(i2) <= 1
    /\ \A t \in Threads :
          /\ pc[t] = "read" => Len(calls) = 1 /\ Len(i2) = 1 /\ ONCE = "COMPLETE" /\ VALUE # 0
          /\ pc[t] = "returned" => Len(calls) = 1 /\ Len(i2) = 1 /\ ret[t] = VALUE /\ ret[t] # 0
    /\ \A t, u \in Threads : (ret[t] # 0 /\ ret[u] # 0) => ret[t] = ret[u]

\* Every thread has returned from deref, two of them from a second call,
\* and one thread alone ran the initializer.
C30_Witness ==
    /\ form = "lazy_static"
    /\ \A t \in Threads : pc[t] = "returned" /\ ret[t] = VALUE
    /\ \E t, u \in Threads : t # u /\ input[t] = 2 /\ input[u] = 2
    /\ Len(calls) = 1
    /\ Len(i2) = 1

====
